---- MODULE Spec2Model ----
(***************************************************************************)
(* Model of the NANDA agent bridge: the envelope codec, the improver       *)
(* registry, the command router (AgentBridge.handle_message), and the UI   *)
(* relay (SSE queue and latest-message mailbox).                           *)
(*                                                                         *)
(* Text is modelled as a sequence of symbols.  A symbol is either one      *)
(* ordinary character or one of the protocol markers, which no sequence of *)
(* ordinary characters of the model spells, so two texts are equal as      *)
(* Python strings exactly when they are equal as sequences.                *)
(***************************************************************************)
EXTENDS Integers, Sequences, FiniteSets, TLC

\* ------------------------------------------------------------------ bounds
MaxBody == 3
MaxBridges == 2
MaxPublish == 3
MaxThreads == 2
MaxMsgs == 2
MaxPath == 3
MaxUrl == 3
MaxNandas == 2

\* ----------------------------------------------------------------- symbols
EXT == "__EXTERNAL_MESSAGE__"
FROM_AGENT == "__FROM_AGENT__"
TO_AGENT == "__TO_AGENT__"
MESSAGE_START == "__MESSAGE_START__"
MESSAGE_END == "__MESSAGE_END__"
NL == "\n"
SP == " "

\* Python None, as the text that formatting it yields
PyNone == <<"None">>
\* a metadata value that is not a str (a JSON number other than 0): truthy,
\* and without the methods of str
PyNumber == <<"(int) 7">>

\* str.isspace of one symbol
Whitespace == {SP, NL}

\* all texts over alphabet A of length at most n
TextsUpTo(A, n) == UNION {[1..k -> A] : k \in 0..n}

\* ------------------------------------------------------- string primitives
\* s.startswith(p)
StartsWith(s, p) == Len(s) >= Len(p) /\ SubSeq(s, 1, Len(p)) = p

\* s.endswith(p)
EndsWith(s, p) == Len(s) >= Len(p) /\ SubSeq(s, Len(s) - Len(p) + 1, Len(s)) = p

\* index of the first occurrence of symbol c in s, 0 when there is none
RECURSIVE IndexFrom(_, _, _)
IndexFrom(s, c, i) ==
  IF i > Len(s) THEN 0
  ELSE IF s[i] = c THEN i
  ELSE IndexFrom(s, c, i + 1)

IndexOf(s, c) == IndexFrom(s, c, 1)

\* s.split(c): every piece between occurrences of c (never empty as a list)
RECURSIVE Split(_, _)
Split(s, c) ==
  LET i == IndexOf(s, c)
  IN IF i = 0 THEN <<s>>
     ELSE <<SubSeq(s, 1, i - 1)>> \o Split(SubSeq(s, i + 1, Len(s)), c)

\* s.split(c, 1): at most one cut, at the first c
Split1(s, c) ==
  LET i == IndexOf(s, c)
  IN IF i = 0 THEN <<s>>
     ELSE <<SubSeq(s, 1, i - 1), SubSeq(s, i + 1, Len(s))>>

\* s.rstrip(): drops every trailing whitespace symbol
RECURSIVE RStrip(_)
RStrip(s) ==
  IF s # <<>> /\ s[Len(s)] \in Whitespace THEN RStrip(SubSeq(s, 1, Len(s) - 1))
  ELSE s

\* ---------------------------------------------------------- envelope codec
\* the envelope text send_to_agent builds
FormatEnvelope(agent_id, target_agent_id, message_text) ==
  <<EXT, NL, FROM_AGENT>> \o agent_id \o <<NL, TO_AGENT>> \o target_agent_id
    \o <<NL, MESSAGE_START, NL>> \o message_text \o <<NL, MESSAGE_END>>

\* one iteration of the header/body loop of handle_external_message
ParseLine(st, line) ==
  IF StartsWith(line, <<FROM_AGENT>>)
    THEN [st EXCEPT !.from_agent = SubSeq(line, 2, Len(line))]
  ELSE IF StartsWith(line, <<TO_AGENT>>)
    THEN [st EXCEPT !.to_agent = SubSeq(line, 2, Len(line))]
  ELSE IF line = <<MESSAGE_START>> THEN [st EXCEPT !.in_message = TRUE]
  ELSE IF line = <<MESSAGE_END>> THEN [st EXCEPT !.in_message = FALSE]
  ELSE IF st.in_message
    THEN [st EXCEPT !.message_content = st.message_content \o line \o <<NL>>]
  ELSE st

RECURSIVE ParseLines(_, _, _)
ParseLines(st, lines, i) ==
  IF i > Len(lines) THEN st
  ELSE ParseLines(ParseLine(st, lines[i]), lines, i + 1)

\* mutant: the first line only has to begin with the start marker
ParseExternal_Prefix(msg_text) ==
  LET lines == Split(msg_text, NL)
  IN IF ~StartsWith(lines[1], <<EXT>>) THEN [ok |-> FALSE]
     ELSE LET st == ParseLines([from_agent |-> PyNone, to_agent |-> PyNone,
                                message_content |-> <<>>, in_message |-> FALSE],
                               lines, 2)
          IN [ok |-> TRUE, from_agent |-> st.from_agent, to_agent |-> st.to_agent,
              message_content |-> RStrip(st.message_content)]

\* the parser of handle_external_message: None when the first line is not the
\* start marker, else the fields it extracted
ParseExternal(msg_text) ==
  LET lines == Split(msg_text, NL)
  IN IF lines[1] # <<EXT>> THEN [ok |-> FALSE]
     ELSE LET st == ParseLines([from_agent |-> PyNone, to_agent |-> PyNone,
                                message_content |-> <<>>, in_message |-> FALSE],
                               lines, 2)
          IN [ok |-> TRUE, from_agent |-> st.from_agent, to_agent |-> st.to_agent,
              message_content |-> RStrip(st.message_content)]

\* ------------------------------------------------------------ codec inputs
IdChars == {"a", "b"}
AgentIds == {<<c>> : c \in IdChars}
BodyAlphabet == {"a", SP, NL, FROM_AGENT, MESSAGE_START, MESSAGE_END}
Bodies == TextsUpTo(BodyAlphabet, MaxBody)

\* the lines of a text
Lines(s) == Split(s, NL)

\* no line of b equals the end-of-body marker
NoEndMarkerLine(b) == \A i \in 1..Len(Lines(b)) : Lines(b)[i] # <<MESSAGE_END>>

\* ------------------------------------------------------------------ state
VARIABLES
  codec_in, codec_out,              \* one run of the codec: inputs, result
  AGENT_ID, IMPROVE_MESSAGES,       \* process configuration (environment)
  message_improvement_decorators,   \* improver registry: name -> function
  active_improver,                  \* bridge -> its active improver name
  imp_ret,                          \* the last registry operation and its result
  nandas,                           \* the NANDA objects: improvement_logic, bridge
  client_queues,                    \* client id -> [queue, event] (SSE relay)
  pub,                              \* add_message_to_queue calls in progress
  stream,                           \* client id -> position of its generate()
  yielded,                          \* client id -> messages its stream yielded
  enq_order,                        \* client id -> messages in the order put
  latest_message,                   \* the file latest_message.json
  req,                              \* request thread -> its receive/render call
  next_msg,                         \* the next message a bridge delivers
  serial,                           \* the server handles one request at a time
  slot,                             \* history: what a single-slot mailbox holds
  delivered,                        \* history: message -> times render returned it
  UI_MODE, SMITHERY_API_KEY,        \* process configuration read by the router
  SMITHERY_ENV,                     \* os.getenv("SMITHERY_API_KEY") at import
  inbound,                          \* the message handle_message was called with
  collab,                           \* what the collaborators do during that call
  reply,                            \* what handle_message returned (or raised)
  calls,                            \* collaborator calls it made, in order
  conversation_logs,                \* conversation id -> entries of its log file
  in_flight,                        \* envelopes delivered to a peer, not yet handled
  inputs                            \* directed sends the users have issued

codecVars == <<codec_in, codec_out>>
cfgVars == <<AGENT_ID, IMPROVE_MESSAGES>>
improverVars ==
  <<message_improvement_decorators, active_improver, imp_ret, nandas>>

relayVars == <<client_queues, pub, stream, yielded, enq_order>>

mailboxVars == <<latest_message, req, next_msg, serial, slot, delivered>>

routerVars ==
  <<UI_MODE, SMITHERY_API_KEY, SMITHERY_ENV, inbound, collab, reply, calls,
    conversation_logs, in_flight, inputs>>

vars == <<codecVars, cfgVars, improverVars, relayVars, mailboxVars, routerVars>>

\* ------------------------------------------------------- generation service
\* what anthropic.messages.create does in one call: a text (possibly empty),
\* an APIStatusError about the credit balance, or any other failure
GenOutcomes ==
  {[kind |-> "text", text |-> <<"g">>], [kind |-> "text", text |-> <<>>],
   [kind |-> "credit"], [kind |-> "error"]}

\* Optional[str] results: [none |-> TRUE] is None
None == [none |-> TRUE]
Some(t) == [none |-> FALSE, text |-> t]
Truthy(r) == ~r.none /\ r.text # <<>>

\* call_claude_direct: text or None, never raises
call_claude_direct(message_text, gen) ==
  IF gen.kind = "text" THEN Some(gen.text)
  ELSE IF gen.kind = "credit"
    THEN Some(<<"Agent ">> \o AGENT_ID \o <<" processed (API credit limit reached): ">>
              \o message_text)
  ELSE None

\* --------------------------------------------------------- improver registry
ImproverNames == {"default_claude", "custom"}

\* the functions a caller registers: the default improver, one that always
\* raises, one that appends "!", and None (register_message_improver does not
\* check its argument)
FN_DEFAULT == "default_claude_improver"
FN_RAISE == "fn_raise"
FN_BANG == "fn_bang"
FN_NONE == "None"
ImproverFns == {FN_DEFAULT, FN_RAISE, FN_BANG, FN_NONE}

\* results of a call: a returned text or a raised exception
Returned(t) == [raised |-> FALSE, value |-> t]
Raised(e) == [raised |-> TRUE, exc |-> e]

\* default_claude_improver(message_text)
default_claude_improver(message_text, gen) ==
  IF ~IMPROVE_MESSAGES THEN Returned(message_text)
  ELSE LET improved_message == call_claude_direct(message_text, gen)
       IN Returned(IF Truthy(improved_message) THEN improved_message.text
                   ELSE message_text)

\* improver_func(message_text) for a registered function
CallImprover(improver_func, message_text, gen) ==
  IF improver_func = FN_DEFAULT THEN default_claude_improver(message_text, gen)
  ELSE IF improver_func = FN_BANG THEN Returned(message_text \o <<"!">>)
  ELSE Raised("improver")

\* message_improvement_decorators.get(name)
get_message_improver(name) ==
  IF name \in DOMAIN message_improvement_decorators
    THEN message_improvement_decorators[name]
  ELSE FN_NONE

\* mutant: the except clause re-raises
ImproverFailed_Propagates(message_text, r) == r

\* the improver raises inside improve_message_direct: the except clause
ImproverFailed(message_text, r) == Returned(message_text)

\* AgentBridge.improve_message_direct(message_text) on a bridge whose active
\* improver is `active`
improve_message_direct(active, message_text, gen) ==
  LET improver_func == get_message_improver(active)
  IN IF improver_func # FN_NONE
       THEN LET r == CallImprover(improver_func, message_text, gen)
            IN IF r.raised THEN ImproverFailed(message_text, r) ELSE r
     ELSE Returned(message_text)

\* mutant: the name is stored without the membership test
SetImproverActive_Unchecked(old, improver_name) == improver_name

\* the name set_message_improver leaves active
SetImproverActive(old, improver_name) ==
  IF improver_name \in DOMAIN message_improvement_decorators THEN improver_name
  ELSE old

\* --------------------------------------------------------------- idle parts
CodecIdle ==
  /\ codec_in = [op |-> "none"]
  /\ codec_out = [done |-> FALSE]

\* module import: the decorator registers the default improver; one bridge is
\* constructed with it active
ImproverInit ==
  /\ message_improvement_decorators = [n \in {"default_claude"} |-> FN_DEFAULT]
  /\ active_improver = [b \in {1} |-> "default_claude"]
  /\ imp_ret = [op |-> "none"]
  /\ nandas = <<>>

\* run_ui_agent_https at import: no client is registered
Clients == {"c1", "c2"}
PubCalls == 1..MaxPublish

RelayInit ==
  /\ client_queues = [c \in {} |-> [queue |-> <<>>, event |-> FALSE]]
  /\ pub = [k \in PubCalls |-> [pc |-> "idle", client |-> "c1", accepted |-> FALSE]]
  /\ stream = [c \in Clients |-> "none"]
  /\ yielded = [c \in Clients |-> <<>>]
  /\ enq_order = [c \in Clients |-> <<>>]

\* no latest_message.json, no request in progress
Threads == 1..MaxThreads
Msgs == 1..MaxMsgs
NoResult == [kind |-> "none", m |-> 0]

MailboxInit ==
  /\ latest_message = [exists |-> FALSE, content |-> 0]
  /\ req = [t \in Threads |->
             [op |-> "none", pc |-> "idle", msg |-> 0, stale |-> FALSE,
              res |-> NoResult]]
  /\ next_msg = 1
  /\ slot = 0
  /\ delivered = [m \in Msgs |-> 0]

\* SMITHERY_API_KEY = os.getenv("SMITHERY_API_KEY") or <the built-in key>:
\* env is None (unset) or the variable's text
SmitheryDefault == <<"bfcb8cec-9d56-4957-8156-bced0bfca532">>
SmitheryKey(env) == IF Truthy(env) THEN env.text ELSE SmitheryDefault

\* collaborators that are never consulted
QuietCollab ==
  [log_fail |-> 0, gen |-> [kind |-> "error"], lookup |-> None,
   deliver |-> "ok", ui |-> "unset", terminal |-> "ok",
   resolve |-> None, invoke |-> "ok"]

\* no message has been handled; UI_MODE and the key have their defaults
RouterIdle ==
  /\ UI_MODE = TRUE
  /\ SMITHERY_ENV = None
  /\ SMITHERY_API_KEY = SmitheryKey(None)
  /\ inbound = [op |-> "none"]
  /\ collab = QuietCollab
  /\ reply = [kind |-> "none"]
  /\ calls = <<>>
  /\ conversation_logs = [c \in {} |-> <<>>]
  /\ in_flight = <<>>
  /\ inputs = 0

CfgInit ==
  /\ AGENT_ID \in {<<c>> : c \in {"a", "b"}}
  /\ IMPROVE_MESSAGES \in BOOLEAN

\* --------------------------------------------------------------------- codec
\* the inputs of one codec run
CodecInputs ==
  [op : {"roundtrip"}, f : AgentIds, t : AgentIds, b : Bodies]

CodecInit ==
  /\ codec_in \in CodecInputs
  /\ codec_out = [done |-> FALSE]
  /\ AGENT_ID = <<"a">>
  /\ IMPROVE_MESSAGES = TRUE
  /\ ImproverInit
  /\ RelayInit
  /\ MailboxInit
  /\ RouterIdle
  /\ serial = FALSE

\* send_to_agent builds the envelope of (f, t, b); the receiving bridge's
\* handle_external_message parses it
RoundTrip ==
  /\ codec_in.op = "roundtrip"
  /\ ~codec_out.done
  /\ codec_out' = [done |-> TRUE,
                   parsed |-> ParseExternal(
                     FormatEnvelope(codec_in.f, codec_in.t, codec_in.b))]
  /\ UNCHANGED <<codec_in, cfgVars, improverVars, relayVars, mailboxVars, routerVars>>

CodecNext == RoundTrip

SpecCodec == CodecInit /\ [][CodecNext]_vars

\* ------------------------------------------------- improver registry actions
ImpTexts == {<<>>, <<"a">>}

\* register_message_improver(name, improver_func), and the message_improver
\* decorator, which stores under name or func.__name__
register_message_improver(name, improver_func) ==
  /\ message_improvement_decorators' =
       [n \in DOMAIN message_improvement_decorators \cup {name} |->
          IF n = name THEN improver_func ELSE message_improvement_decorators[n]]
  /\ imp_ret' = [op |-> "register_message_improver", name |-> name,
                 fn |-> improver_func]
  /\ UNCHANGED active_improver

\* AgentBridge.set_message_improver(improver_name) on bridge b
set_message_improver(b, improver_name) ==
  /\ active_improver' =
       [active_improver EXCEPT ![b] = SetImproverActive(@, improver_name)]
  /\ imp_ret' = [op |-> "set_message_improver", bridge |-> b,
                 name |-> improver_name,
                 result |-> improver_name \in DOMAIN message_improvement_decorators]
  /\ UNCHANGED message_improvement_decorators

\* AgentBridge.set_custom_improver(improver_func, name) on bridge b
set_custom_improver(b, improver_func, name) ==
  /\ message_improvement_decorators' =
       [n \in DOMAIN message_improvement_decorators \cup {name} |->
          IF n = name THEN improver_func ELSE message_improvement_decorators[n]]
  /\ active_improver' = [active_improver EXCEPT ![b] = name]
  /\ imp_ret' = [op |-> "set_custom_improver", bridge |-> b, name |-> name,
                 fn |-> improver_func]

\* a caller invokes improve_message_direct on bridge b
ImproveCall(b, message_text, gen) ==
  /\ imp_ret' = [op |-> "improve_message_direct", bridge |-> b,
                 text |-> message_text, gen |-> gen,
                 result |-> improve_message_direct(active_improver[b],
                                                   message_text, gen)]
  /\ UNCHANGED <<message_improvement_decorators, active_improver>>

\* AgentBridge(): a further bridge of the process
NewAgentBridge ==
  /\ Cardinality(DOMAIN active_improver) < MaxBridges
  /\ active_improver' =
       [b \in 1..(Cardinality(DOMAIN active_improver) + 1) |->
          IF b \in DOMAIN active_improver THEN active_improver[b]
          ELSE "default_claude"]
  /\ imp_ret' = [op |-> "AgentBridge"]
  /\ UNCHANGED message_improvement_decorators

RegisterStep ==
  /\ \E name \in ImproverNames, fn \in ImproverFns :
       register_message_improver(name, fn)
  /\ UNCHANGED <<nandas, codecVars, cfgVars, relayVars, mailboxVars, routerVars>>

SetImproverStep ==
  /\ \E b \in DOMAIN active_improver, name \in ImproverNames \cup {"nonexistent"} :
       set_message_improver(b, name)
  /\ UNCHANGED <<nandas, codecVars, cfgVars, relayVars, mailboxVars, routerVars>>

SetCustomStep ==
  /\ \E b \in DOMAIN active_improver, fn \in ImproverFns :
       set_custom_improver(b, fn, "custom")
  /\ UNCHANGED <<nandas, codecVars, cfgVars, relayVars, mailboxVars, routerVars>>

ImproveStep ==
  /\ \E b \in DOMAIN active_improver, t \in ImpTexts, gen \in GenOutcomes :
       ImproveCall(b, t, gen)
  /\ UNCHANGED <<nandas, codecVars, cfgVars, relayVars, mailboxVars, routerVars>>

NewBridgeStep ==
  /\ NewAgentBridge
  /\ UNCHANGED <<nandas, codecVars, cfgVars, relayVars, mailboxVars, routerVars>>

ImproverSpecInit ==
  /\ CodecIdle
  /\ CfgInit
  /\ ImproverInit
  /\ RelayInit
  /\ MailboxInit
  /\ RouterIdle
  /\ serial = FALSE

ImproverNext ==
  \/ RegisterStep
  \/ SetImproverStep
  \/ SetCustomStep
  \/ ImproveStep
  \/ NewBridgeStep

SpecImprover == ImproverSpecInit /\ [][ImproverNext]_vars

\* ------------------------------------------------------------- NANDA objects
\* the improvement logics a program hands to NANDA(...): functions (None has
\* no __name__, so NANDA(None) fails before it registers anything)
NandaLogics == {FN_DEFAULT, FN_RAISE, FN_BANG}

\* NANDA(improvement_logic): register_custom_improver stores the logic under
\* "nanda_custom"; create_agent_bridge makes a bridge and activates that name
NewNANDA(improvement_logic) ==
  LET b == Cardinality(DOMAIN active_improver) + 1
      registered ==
        [n \in DOMAIN message_improvement_decorators \cup {"nanda_custom"} |->
           IF n = "nanda_custom" THEN improvement_logic
           ELSE message_improvement_decorators[n]]
  IN /\ Len(nandas) < MaxNandas
     /\ message_improvement_decorators' = registered
     /\ active_improver' =
          [x \in DOMAIN active_improver \cup {b} |->
             IF x = b THEN "nanda_custom" ELSE active_improver[x]]
     /\ nandas' = Append(nandas, [improvement_logic |-> improvement_logic,
                                  bridge |-> b])
     /\ imp_ret' = [op |-> "NANDA", fn |-> improvement_logic, bridge |-> b]

NandaStep ==
  /\ \E improvement_logic \in NandaLogics : NewNANDA(improvement_logic)
  /\ UNCHANGED <<codecVars, cfgVars, relayVars, mailboxVars, routerVars>>

\* the program registers a further improver, under any name
NandaRegisterStep ==
  /\ \E name \in {"nanda_custom", "custom"}, fn \in ImproverFns :
       register_message_improver(name, fn)
  /\ UNCHANGED <<nandas, codecVars, cfgVars, relayVars, mailboxVars, routerVars>>

\* a program built on nanda.py: the module import registered the default
\* improver, no bridge exists before the first NANDA(...)
NandaInit ==
  /\ CodecIdle
  /\ CfgInit
  /\ message_improvement_decorators = [n \in {"default_claude"} |-> FN_DEFAULT]
  /\ active_improver = [b \in {} |-> "default_claude"]
  /\ imp_ret = [op |-> "none"]
  /\ nandas = <<>>
  /\ RelayInit
  /\ MailboxInit
  /\ RouterIdle
  /\ serial = FALSE

NandaNext ==
  \/ NandaStep
  \/ NandaRegisterStep

SpecNanda == NandaInit /\ [][NandaNext]_vars

\* ------------------------------------------------------------ UI relay (SSE)
\* mutant: put replaces what is queued
QueuePut_Overwrite(queue, message) == <<message>>

\* queue.put(message): Queue is FIFO and thread-safe
QueuePut(queue, message) == Append(queue, message)

\* queue.get() of a non-empty queue: the message taken and the queue left
QueueGet(queue) == [message |-> Head(queue), rest |-> Tail(queue)]

\* a client is given a queue and an event (the registering code is outside the
\* sources: client_queues is only ever read there)
ExternalRegister ==
  /\ \E c \in Clients \ DOMAIN client_queues :
       client_queues' = [d \in DOMAIN client_queues \cup {c} |->
                           IF d = c THEN [queue |-> <<>>, event |-> FALSE]
                           ELSE client_queues[d]]
  /\ UNCHANGED <<pub, stream, yielded, enq_order>>
  /\ UNCHANGED <<codecVars, cfgVars, improverVars, mailboxVars, routerVars>>

\* add_message_to_queue(client_id, message): the membership test
PublishCall ==
  /\ \E k \in PubCalls, c \in Clients :
       /\ pub[k].pc = "idle"
       /\ pub' = [pub EXCEPT ![k] =
                    IF c \in DOMAIN client_queues
                      THEN [pc |-> "put", client |-> c, accepted |-> TRUE]
                    ELSE [pc |-> "done", client |-> c, accepted |-> FALSE]]
  /\ UNCHANGED <<client_queues, stream, yielded, enq_order>>
  /\ UNCHANGED <<codecVars, cfgVars, improverVars, mailboxVars, routerVars>>

\* add_message_to_queue: client_queues[client_id]['queue'].put(message)
PublishPut ==
  /\ \E k \in PubCalls :
       /\ pub[k].pc = "put"
       /\ client_queues' = [client_queues EXCEPT ![pub[k].client].queue =
                              QueuePut(@, k)]
       /\ enq_order' = [enq_order EXCEPT ![pub[k].client] = Append(@, k)]
       /\ pub' = [pub EXCEPT ![k].pc = "set"]
  /\ UNCHANGED <<stream, yielded>>
  /\ UNCHANGED <<codecVars, cfgVars, improverVars, mailboxVars, routerVars>>

\* add_message_to_queue: client_queues[client_id]['event'].set()
PublishSet ==
  /\ \E k \in PubCalls :
       /\ pub[k].pc = "set"
       /\ client_queues' = [client_queues EXCEPT ![pub[k].client].event = TRUE]
       /\ pub' = [pub EXCEPT ![k].pc = "done"]
  /\ UNCHANGED <<stream, yielded, enq_order>>
  /\ UNCHANGED <<codecVars, cfgVars, improverVars, mailboxVars, routerVars>>

\* stream_messages(client_id) for a registered client: generate() starts
StreamOpen ==
  /\ \E c \in DOMAIN client_queues :
       /\ stream[c] = "none"
       /\ stream' = [stream EXCEPT ![c] = "wait"]
  /\ UNCHANGED <<client_queues, pub, yielded, enq_order>>
  /\ UNCHANGED <<codecVars, cfgVars, improverVars, mailboxVars, routerVars>>

\* generate: event.wait() returns once the event is set
StreamWait ==
  /\ \E c \in DOMAIN client_queues :
       /\ stream[c] = "wait"
       /\ client_queues[c].event
       /\ stream' = [stream EXCEPT ![c] = "empty"]
  /\ UNCHANGED <<client_queues, pub, yielded, enq_order>>
  /\ UNCHANGED <<codecVars, cfgVars, improverVars, mailboxVars, routerVars>>

\* generate: the loop test `while not queue.empty()`
StreamTest ==
  /\ \E c \in DOMAIN client_queues :
       /\ stream[c] = "empty"
       /\ stream' = [stream EXCEPT ![c] =
                       IF client_queues[c].queue = <<>> THEN "clear" ELSE "get"]
  /\ UNCHANGED <<client_queues, pub, yielded, enq_order>>
  /\ UNCHANGED <<codecVars, cfgVars, improverVars, mailboxVars, routerVars>>

\* generate: message = queue.get(); yield it
StreamGet ==
  /\ \E c \in DOMAIN client_queues :
       /\ stream[c] = "get"
       /\ LET g == QueueGet(client_queues[c].queue)
          IN /\ client_queues' = [client_queues EXCEPT ![c].queue = g.rest]
             /\ yielded' = [yielded EXCEPT ![c] = Append(@, g.message)]
       /\ stream' = [stream EXCEPT ![c] = "empty"]
  /\ UNCHANGED <<pub, enq_order>>
  /\ UNCHANGED <<codecVars, cfgVars, improverVars, mailboxVars, routerVars>>

\* generate: event.clear(), then back to event.wait()
StreamClear ==
  /\ \E c \in DOMAIN client_queues :
       /\ stream[c] = "clear"
       /\ client_queues' = [client_queues EXCEPT ![c].event = FALSE]
       /\ stream' = [stream EXCEPT ![c] = "wait"]
  /\ UNCHANGED <<pub, yielded, enq_order>>
  /\ UNCHANGED <<codecVars, cfgVars, improverVars, mailboxVars, routerVars>>

RelaySpecInit ==
  /\ CodecIdle
  /\ AGENT_ID = <<"a">>
  /\ IMPROVE_MESSAGES = TRUE
  /\ ImproverInit
  /\ RelayInit
  /\ MailboxInit
  /\ RouterIdle
  /\ serial = FALSE

RelayNext ==
  \/ ExternalRegister
  \/ PublishCall
  \/ PublishPut
  \/ PublishSet
  \/ StreamOpen
  \/ StreamWait
  \/ StreamTest
  \/ StreamGet
  \/ StreamClear

SpecRelay == RelaySpecInit /\ [][RelayNext]_vars

\* stream_messages(client_id) for a client id that is not in client_queues:
\* the request is answered 400 "Client not registered" and nothing is created
StreamReject ==
  /\ \E c \in Clients \ DOMAIN client_queues :
       /\ stream[c] \in {"none", "400"}
       /\ stream' = [stream EXCEPT ![c] = "400"]
  /\ UNCHANGED <<client_queues, pub, yielded, enq_order>>
  /\ UNCHANGED <<codecVars, cfgVars, improverVars, mailboxVars, routerVars>>

\* the relay as the sources alone run it: client_queues starts empty and no
\* code of the sources adds a client to it
SubscribeNext ==
  \/ StreamReject
  \/ PublishCall

SpecSubscribe == RelaySpecInit /\ [][SubscribeNext]_vars

\* --------------------------------------------- UI relay (latest message file)
\* thread t may take a step: always when the server is threaded
\* (app.run(threaded=True)), else only while no other request is in progress
MayStep(t) == serial => \A u \in Threads \ {t} : req[u].pc = "idle"

\* a request returns
Return(r, kind, m) == [r EXCEPT !.pc = "idle", !.res = [kind |-> kind, m |-> m]]

\* open(message_file, "w"): the file exists and is empty
OpenForWrite(f) == [exists |-> TRUE, content |-> 0]

\* mutant: render_on_ui leaves the file in place
RemoveFile_Skip(f) == f

\* os.remove(message_file)
RemoveFile(f) == [exists |-> FALSE, content |-> 0]

\* POST /api/receive_message arrives with the next message
ReceiveCall ==
  /\ \E t \in Threads :
       /\ MayStep(t)
       /\ req[t].pc = "idle"
       /\ next_msg <= MaxMsgs
       /\ req' = [req EXCEPT ![t] = [op |-> "receive", pc |-> "lookup",
                                     msg |-> next_msg, stale |-> FALSE,
                                     res |-> NoResult]]
       /\ next_msg' = next_msg + 1
  /\ UNCHANGED <<latest_message, serial, slot, delivered>>
  /\ UNCHANGED <<codecVars, cfgVars, improverVars, relayVars, routerVars>>

\* receive_message: the sender-name request to the registry, which may fail
\* (the except clause answers 500 and nothing is written)
ReceiveLookup ==
  /\ \E t \in Threads, ok \in BOOLEAN :
       /\ MayStep(t)
       /\ req[t].pc = "lookup"
       /\ req' = [req EXCEPT ![t] =
                    IF ok THEN [@ EXCEPT !.pc = "open"] ELSE Return(@, "error", 0)]
  /\ UNCHANGED <<latest_message, next_msg, serial, slot, delivered>>
  /\ UNCHANGED <<codecVars, cfgVars, improverVars, relayVars, routerVars>>

\* receive_message: open(message_file, "w")
ReceiveOpen ==
  /\ \E t \in Threads :
       /\ MayStep(t)
       /\ req[t].pc = "open"
       /\ latest_message' = OpenForWrite(latest_message)
       /\ req' = [req EXCEPT ![t].pc = "dump", ![t].stale = FALSE]
  /\ UNCHANGED <<next_msg, serial, slot, delivered>>
  /\ UNCHANGED <<codecVars, cfgVars, improverVars, relayVars, routerVars>>

\* receive_message: json.dump and the close that writes it out; a file removed
\* since the open is written to no more
ReceiveDump ==
  /\ \E t \in Threads :
       /\ MayStep(t)
       /\ req[t].pc = "dump"
       /\ latest_message' =
            IF req[t].stale THEN latest_message
            ELSE [latest_message EXCEPT !.content = req[t].msg]
       /\ req' = [req EXCEPT ![t] = Return(@, "received", 0)]
       /\ slot' = req[t].msg
  /\ UNCHANGED <<next_msg, serial, delivered>>
  /\ UNCHANGED <<codecVars, cfgVars, improverVars, relayVars, routerVars>>

\* GET /api/render arrives
RenderCall ==
  /\ \E t \in Threads :
       /\ MayStep(t)
       /\ req[t].pc = "idle"
       /\ req' = [req EXCEPT ![t] = [op |-> "render", pc |-> "exists", msg |-> 0,
                                     stale |-> FALSE, res |-> NoResult]]
  /\ UNCHANGED <<latest_message, next_msg, serial, slot, delivered>>
  /\ UNCHANGED <<codecVars, cfgVars, improverVars, relayVars, routerVars>>

\* render_on_ui: os.path.exists(message_file); {} when it does not
RenderExists ==
  /\ \E t \in Threads :
       /\ MayStep(t)
       /\ req[t].pc = "exists"
       /\ IF latest_message.exists
            THEN req' = [req EXCEPT ![t].pc = "load"]
          ELSE req' = [req EXCEPT ![t] = Return(@, "empty", 0)]
  /\ UNCHANGED <<latest_message, next_msg, serial, slot, delivered>>
  /\ UNCHANGED <<codecVars, cfgVars, improverVars, relayVars, routerVars>>

\* render_on_ui: json.load(open(message_file)); a missing file and an empty
\* file both raise, which the except clause answers with 500
RenderLoad ==
  /\ \E t \in Threads :
       /\ MayStep(t)
       /\ req[t].pc = "load"
       /\ req' = [req EXCEPT ![t] =
                    IF ~latest_message.exists THEN Return(@, "error_missing", 0)
                    ELSE IF latest_message.content = 0 THEN Return(@, "error_decode", 0)
                    ELSE [@ EXCEPT !.pc = "remove", !.msg = latest_message.content]]
  /\ UNCHANGED <<latest_message, next_msg, serial, slot, delivered>>
  /\ UNCHANGED <<codecVars, cfgVars, improverVars, relayVars, routerVars>>

\* render_on_ui: os.remove(message_file), then the message is returned; a
\* missing file raises, which the except clause answers with 500
RenderRemove ==
  /\ \E t \in Threads :
       /\ MayStep(t)
       /\ req[t].pc = "remove"
       /\ IF ~latest_message.exists
            THEN /\ req' = [req EXCEPT ![t] = Return(@, "error_missing", 0)]
                 /\ UNCHANGED <<latest_message, delivered, slot>>
          ELSE /\ latest_message' = RemoveFile(latest_message)
               /\ req' = [u \in Threads |->
                            IF u = t THEN Return(req[t], "message", req[t].msg)
                            ELSE IF req[u].pc = "dump"
                              THEN [req[u] EXCEPT !.stale = TRUE]
                            ELSE req[u]]
               /\ delivered' = [delivered EXCEPT ![req[t].msg] = @ + 1]
               /\ slot' = 0
  /\ UNCHANGED <<next_msg, serial>>
  /\ UNCHANGED <<codecVars, cfgVars, improverVars, relayVars, routerVars>>

MailboxNext ==
  \/ ReceiveCall
  \/ ReceiveLookup
  \/ ReceiveOpen
  \/ ReceiveDump
  \/ RenderCall
  \/ RenderExists
  \/ RenderLoad
  \/ RenderRemove

MailboxSpecInit ==
  /\ CodecIdle
  /\ AGENT_ID = <<"a">>
  /\ IMPROVE_MESSAGES = TRUE
  /\ ImproverInit
  /\ RelayInit
  /\ MailboxInit
  /\ RouterIdle
  /\ serial = FALSE

\* the same start, with the server handling one request at a time
MailboxSeqInit ==
  /\ CodecIdle
  /\ AGENT_ID = <<"a">>
  /\ IMPROVE_MESSAGES = TRUE
  /\ ImproverInit
  /\ RelayInit
  /\ MailboxInit
  /\ RouterIdle
  /\ serial = TRUE

\* the server as main() runs it: app.run(threaded=True)
SpecMailbox == MailboxSpecInit /\ [][MailboxNext]_vars

\* the same handlers with requests handled one at a time
SpecMailboxSeq == MailboxSeqInit /\ [][MailboxNext]_vars

\* ------------------------------------------------------------ command router
\* msg.conversation_id or str(uuid.uuid4())
FreshConversationId == <<"uuid4">>

\* mutant: a fresh id is generated even when the message has one
ConversationIdOf_Fresh(msg) == FreshConversationId

ConversationIdOf(msg) ==
  IF msg.conversation_id # <<>> THEN msg.conversation_id ELSE FreshConversationId

\* mutant: the separator is written even after an empty path
CurrentPath_AlwaysSeparated(path, agent_id) == path \o <<">">> \o agent_id

\* current_path = path + ('>' if path else '') + agent_id
CurrentPath(path, agent_id) ==
  path \o (IF path # <<>> THEN <<">">> ELSE <<>>) \o agent_id

\* metadata.get(key, default)
MetaGet(metadata, key, default) ==
  IF key \in DOMAIN metadata THEN metadata[key] ELSE default

\* s.strip() is non-empty
StripTruthy(s) == \E i \in 1..Len(s) : s[i] \notin Whitespace

\* replies: Message(role=AGENT, content=TextContent | ErrorContent, ...), or
\* an exception that leaves handle_message
TextReply(text, msg, conversation_id) ==
  [kind |-> "text", text |-> text, parent_message_id |-> msg.message_id,
   conversation_id |-> conversation_id]
ErrorReply(text, msg, conversation_id) ==
  [kind |-> "error", text |-> text, parent_message_id |-> msg.message_id,
   conversation_id |-> conversation_id]
Unhandled(exc) == [kind |-> "raised", exc |-> exc]

\* what a callee hands back: its value and the collaborator calls it made
Did(value, cs) == [value |-> value, calls |-> cs]

\* log_message(conversation_id, path, source, message_text): the k-th call of
\* the run appends an entry unless open/write fails, and then it raises
LogOk(c, k) == c.log_fail # k
log_message(conversation_id, path, source, message_text, c, k) ==
  <<[fn |-> "log_message", conversation_id |-> conversation_id, path |-> path,
     source |-> source, message |-> message_text, ok |-> LogOk(c, k)]>>

\* anthropic.messages.create(...)
MessagesCreate(full_prompt, system, c) ==
  <<[fn |-> "messages.create", prompt |-> full_prompt, system |-> system,
     outcome |-> c.gen.kind]>>

\* call_claude(prompt, additional_context, conversation_id, current_path,
\* system_prompt): text or None; its log_message is the k-th of the run.
\* additional_context.strip() (line 167) fails on a value that is not a str,
\* before agent_id is bound (line 170), so the except clause, which prints
\* agent_id (line 190), raises UnboundLocalError out of the wrapper.
call_claude(prompt, additional_context, conversation_id, current_path, system_prompt, c, k) ==
  LET full_prompt ==
        IF additional_context # <<>> /\ StripTruthy(additional_context)
          THEN <<"ADDITIONAL CONTEXT FRseOM USER: ">> \o additional_context
                 \o <<NL, NL, "MESSAGE: ">> \o prompt
        ELSE prompt
      create == MessagesCreate(full_prompt, system_prompt, c)
      Gives(value, cs) == [raised |-> FALSE, value |-> value, calls |-> cs]
  IN IF additional_context = PyNumber
       THEN [raised |-> TRUE, exc |-> "UnboundLocalError", calls |-> <<>>]
     ELSE IF c.gen.kind = "text"
       THEN LET logged == log_message(conversation_id, current_path,
                                      <<"Claude ">> \o AGENT_ID, c.gen.text, c, k)
            IN Gives(IF LogOk(c, k) THEN Some(c.gen.text) ELSE None,
                      create \o logged)
     ELSE IF c.gen.kind = "credit"
       THEN Gives(Some(<<"Agent ">> \o AGENT_ID
                        \o <<" processed (API credit limit reached): ">> \o prompt),
                   create)
     ELSE Gives(None, create)

\* mutant: the handler remembers that it has logged before and skips the lookup
lookup_agent_Remembering(agent_id, c) ==
  LET result == IF DOMAIN conversation_logs = {} THEN c.lookup ELSE None
  IN Did(result, <<[fn |-> "lookup_agent", agent_id |-> agent_id,
                    result |-> result]>>)

\* lookup_agent(agent_id): the registered URL or None
lookup_agent(agent_id, c) ==
  Did(c.lookup, <<[fn |-> "lookup_agent", agent_id |-> agent_id,
                   result |-> c.lookup]>>)

\* the URL send_to_agent posts to
TargetBridgeUrl(agent_url) ==
  IF ~EndsWith(agent_url, <<"/a2a">>) THEN agent_url \o <<"/a2a">> ELSE agent_url

\* send_to_agent(target_agent_id, message_text, conversation_id, metadata);
\* metadata is the caller's path/source_agent pair
send_to_agent(target_agent_id, message_text, conversation_id, metadata, c) ==
  LET found == lookup_agent(target_agent_id, c)
      agent_url == found.value
      send_metadata == [is_external |-> TRUE, from_agent_id |-> AGENT_ID,
                        to_agent_id |-> target_agent_id, path |-> metadata.path,
                        source_agent |-> metadata.source_agent]
  IN IF ~Truthy(agent_url)
       THEN Did(<<"Agent ">> \o target_agent_id \o <<" not found in registry">>,
                found.calls)
     ELSE LET sent == <<[fn |-> "send_message",
                         url |-> TargetBridgeUrl(agent_url.text),
                         text |-> FormatEnvelope(AGENT_ID, target_agent_id,
                                                 message_text),
                         conversation_id |-> conversation_id,
                         metadata |-> send_metadata,
                         ok |-> c.deliver = "ok"]>>
          IN Did(IF c.deliver = "ok"
                   THEN <<"Message sent to ">> \o target_agent_id
                 ELSE <<"Error sending message to ">> \o target_agent_id
                        \o <<": ">> \o <<"e">>,
                 found.calls \o sent)

\* mutant: the message is posted to the UI client twice
send_to_ui_client_Twice(message_text, from_agent, conversation_id, c) ==
  LET call == [fn |-> "send_to_ui_client", message |-> message_text,
               from_agent |-> from_agent, conversation_id |-> conversation_id,
               posted |-> c.ui # "unset"]
  IN Did(c.ui = "200", <<call, call>>)

\* send_to_ui_client(message_text, from_agent, conversation_id): True when
\* the UI client answered 200; False when no URL is set or the post fails
send_to_ui_client(message_text, from_agent, conversation_id, c) ==
  Did(c.ui = "200",
      <<[fn |-> "send_to_ui_client", message |-> message_text,
         from_agent |-> from_agent, conversation_id |-> conversation_id,
         posted |-> c.ui # "unset"]>>)

\* get_mcp_server_url(requested_registry, qualified_name): None, or the
\* endpoint (possibly None) with the registry's provider name
get_mcp_server_url(requested_registry, qualified_name, c) ==
  Did(c.resolve, <<[fn |-> "get_mcp_server_url",
                    registry |-> requested_registry,
                    name |-> qualified_name, result |-> c.resolve]>>)

\* form_mcp_server_url(url, config, registry_name)
form_mcp_server_url(url, registry_name) ==
  IF registry_name = "smithery"
    THEN IF SMITHERY_API_KEY = <<>> THEN None
         ELSE Some((IF url.none THEN PyNone ELSE url.text) \o <<"?api_key=">>
                   \o SMITHERY_API_KEY \o <<"&config=", "config_b64">>)
  ELSE url

\* asyncio.run(run_mcp_query(query, updated_url)): the tool's result, or the
\* error text run_mcp_query makes of any failure
run_mcp_query(query, updated_url, c) ==
  Did(IF c.invoke = "ok" THEN <<"result">>
      ELSE <<"Error processing MCP query: ", "e">>,
      <<[fn |-> "run_mcp_query", query |-> query, url |-> updated_url,
         ok |-> c.invoke = "ok"]>>)

\* the terminal forward of handle_external_message (UI_MODE off):
\* A2AClient(LOCAL_TERMINAL_URL).send_message_threaded(...)
send_to_local_terminal(formatted_text, from_agent, conversation_id, c) ==
  Did(c.terminal = "ok",
      <<[fn |-> "terminal.send_message_threaded", message |-> formatted_text,
         source_agent |-> from_agent, conversation_id |-> conversation_id,
         ok |-> c.terminal = "ok"]>>)

\* the acknowledgement both modes return to the sending peer
ReceivedBy(agent_id) == <<"Message received by Agent ">> \o agent_id

\* mutant: an envelope whose TO field names another agent is refused
handle_external_message_Addressed(msg_text, conversation_id, msg, c) ==
  LET parsed == ParseExternal(msg_text)
  IN IF ~parsed.ok THEN Did(None, <<>>)
     ELSE IF parsed.to_agent # AGENT_ID
       THEN Did([none |-> FALSE,
                 reply |-> ErrorReply(<<"Not addressed to this agent">>, msg,
                                      conversation_id)],
                <<>>)
     ELSE Did([none |-> FALSE,
               reply |-> TextReply(ReceivedBy(AGENT_ID), msg, conversation_id)],
              send_to_ui_client(<<"FROM ">> \o parsed.from_agent \o <<": ">>
                                  \o parsed.message_content,
                                parsed.from_agent, conversation_id, c).calls)

\* mutant: the receiving bridge answers the envelope with an envelope of its
\* own to the sender
handle_external_message_Echo(msg_text, conversation_id, msg, c) ==
  LET parsed == ParseExternal(msg_text)
  IN IF ~parsed.ok THEN Did(None, <<>>)
     ELSE Did([none |-> FALSE,
               reply |-> TextReply(ReceivedBy(AGENT_ID), msg, conversation_id)],
              send_to_agent(parsed.from_agent, parsed.message_content,
                            conversation_id,
                            [path |-> <<>>, source_agent |-> AGENT_ID], c).calls)

\* handle_external_message(msg_text, conversation_id, msg): None (value.none)
\* when the text is not an envelope, else the reply
handle_external_message(msg_text, conversation_id, msg, c) ==
  LET parsed == ParseExternal(msg_text)
  IN IF ~parsed.ok THEN Did(None, <<>>)
     ELSE LET from_agent == parsed.from_agent
              formatted_text == <<"FROM ">> \o from_agent \o <<": ">>
                                  \o parsed.message_content
          IN IF UI_MODE
               THEN LET ui == send_to_ui_client(formatted_text, from_agent,
                                                conversation_id, c)
                    IN Did([none |-> FALSE,
                            reply |-> TextReply(ReceivedBy(AGENT_ID), msg,
                                                conversation_id)],
                           ui.calls)
             ELSE LET term == send_to_local_terminal(formatted_text, from_agent,
                                                     conversation_id, c)
                  IN Did([none |-> FALSE,
                          reply |->
                            IF term.value
                              THEN TextReply(ReceivedBy(AGENT_ID), msg,
                                             conversation_id)
                            ELSE ErrorReply(<<"Failed to deliver message: ", "e">>,
                                            msg, conversation_id)],
                         term.calls)

\* "[AGENT <id>] "
Tag(agent_id) == <<"[AGENT ">> \o agent_id \o <<"] ">>

HelpLines ==
  <<"Available commands:", NL, "/help - Show this help message", NL,
    "/quit - Exit the terminal", NL,
    "/query [message] - Get a response from the agent privately", NL,
    "@<agent_id> [message] - Send a message to a specific agent">>

QuerySystemPrompt == <<"You are Claude, an AI assistant. ...">>
DefaultSystemPrompt == <<"SYSTEM_PROMPTS[default]">>

\* the calls improve_message_direct makes: the improver, and through the
\* default improver the generation service
ImproverCalls(active, message_text, c) ==
  <<[fn |-> "improve_message_direct", improver |-> active,
     message |-> message_text]>>
  \o (IF get_message_improver(active) = FN_DEFAULT /\ IMPROVE_MESSAGES
        THEN <<[fn |-> "messages.create", prompt |-> <<"MESSAGE: ">> \o message_text,
                system |-> <<"improve">>, outcome |-> c.gen.kind]>>
      ELSE <<>>)

\* handle_message, lines 696-732: "@<agent_id> <text>"
DirectedSend(b, msg, user_text, conversation_id, current_path, c, logged) ==
  LET parts == Split1(user_text, SP)
  IN IF Len(parts) > 1
       THEN LET target_agent == Tail(parts[1])
                improved ==
                  IF IMPROVE_MESSAGES
                    THEN improve_message_direct(active_improver[b], parts[2], c.gen)
                  ELSE Returned(parts[2])
                impCalls ==
                  IF IMPROVE_MESSAGES
                    THEN ImproverCalls(active_improver[b], parts[2], c)
                  ELSE <<>>
            IN IF improved.raised
                 THEN [reply |-> Unhandled(improved.exc),
                       calls |-> logged \o impCalls]
               ELSE LET message_text == improved.value
                        relog ==
                          IF IMPROVE_MESSAGES
                            THEN log_message(conversation_id, current_path,
                                             <<"Claude ">> \o AGENT_ID,
                                             message_text, c, 2)
                          ELSE <<>>
                        sent == send_to_agent(target_agent, message_text,
                                              conversation_id,
                                              [path |-> current_path,
                                               source_agent |-> AGENT_ID], c)
                    IN IF IMPROVE_MESSAGES /\ ~LogOk(c, 2)
                         THEN [reply |-> Unhandled("OSError"),
                               calls |-> logged \o impCalls \o relog]
                       ELSE [reply |-> TextReply(<<"[AGENT ">> \o AGENT_ID
                                                   \o <<"]: ">> \o message_text,
                                                 msg, conversation_id),
                             calls |-> logged \o impCalls \o relog \o sent.calls]
     ELSE [reply |-> TextReply(Tag(AGENT_ID)
               \o <<"Invalid format. Use '@agent_id message' to send a message.">>,
               msg, conversation_id),
           calls |-> logged]

\* handle_message, lines 734-784: "#<registry>:<tool> <query>"
ToolQuery(msg, user_text, conversation_id, c, logged) ==
  LET parts == Split1(user_text, SP)
      names == Split1(Tail(parts[1]), ":")
  IN IF Len(parts) > 1 /\ Len(names) = 2
       THEN LET response == get_mcp_server_url(names[1], names[2], c)
            IN IF response.value.none
                 THEN [reply |-> TextReply(Tag(AGENT_ID) \o <<"MCP server '">>
                          \o names[2]
                          \o <<"' not found in registry. Please check the server name and try again.">>,
                          msg, conversation_id),
                       calls |-> logged \o response.calls]
               ELSE LET mcp_server_final_url ==
                          form_mcp_server_url(response.value.endpoint,
                                              response.value.registry_name)
                    IN IF mcp_server_final_url.none
                         THEN [reply |-> TextReply(Tag(AGENT_ID)
                                  \o <<"Ensure the required API key for registery is in env file">>,
                                  msg, conversation_id),
                               calls |-> logged \o response.calls]
                       ELSE LET result == run_mcp_query(parts[2],
                                              mcp_server_final_url.text, c)
                            IN [reply |-> TextReply(result.value, msg,
                                                    conversation_id),
                                calls |-> logged \o response.calls \o result.calls]
     ELSE [reply |-> TextReply(Tag(AGENT_ID)
               \o <<"Invalid format. Use '#registry_provider:mcp_server_name query' to send a query to an MCP server.">>,
               msg, conversation_id),
           calls |-> logged]

\* handle_message, lines 787-866: "/<command> ..."
SlashCommand(msg, user_text, additional_context, conversation_id, current_path, c, logged) ==
  LET parts == Split1(user_text, SP)
      command == Tail(parts[1])
  IN IF command = <<"quit">>
       THEN [reply |-> TextReply(Tag(AGENT_ID) \o <<"Exiting session...">>,
                                 msg, conversation_id),
             calls |-> logged]
     ELSE IF command = <<"help">>
       THEN [reply |-> TextReply(Tag(AGENT_ID) \o HelpLines, msg, conversation_id),
             calls |-> logged]
     ELSE IF command = <<"query">>
       THEN IF Len(parts) > 1
              THEN LET claude == call_claude(parts[2], additional_context,
                                             conversation_id, current_path,
                                             QuerySystemPrompt, c, 2)
                       claude_response ==
                         IF ~Truthy(claude.value)
                           THEN <<"Sorry, I couldn't process your query. Please try again.">>
                         ELSE claude.value.text
                   IN IF claude.raised
                        THEN [reply |-> Unhandled(claude.exc),
                              calls |-> logged \o claude.calls]
                      ELSE [reply |-> TextReply(Tag(AGENT_ID) \o claude_response,
                                                msg, conversation_id),
                            calls |-> logged \o claude.calls]
            ELSE [reply |-> TextReply(Tag(AGENT_ID)
                      \o <<"Please provide a query after the /query command.">>,
                      msg, conversation_id),
                  calls |-> logged]
     ELSE [reply |-> TextReply(Tag(AGENT_ID) \o <<"Unknown command. ">> \o HelpLines,
                               msg, conversation_id),
           calls |-> logged]

\* handle_message, lines 868-879: any other text
PlainText(msg, user_text, additional_context, conversation_id, current_path, c, logged) ==
  LET claude == call_claude(user_text, additional_context, conversation_id,
                            current_path, DefaultSystemPrompt, c, 2)
      claude_response ==
        IF Truthy(claude.value) THEN claude.value.text ELSE user_text
  IN IF claude.raised
       THEN [reply |-> Unhandled(claude.exc), calls |-> logged \o claude.calls]
     ELSE [reply |-> TextReply(Tag(AGENT_ID) \o claude_response, msg, conversation_id),
           calls |-> logged \o claude.calls]

\* handle_message, lines 691-879: a message of the local terminal user
FromLocalUser(b, msg, user_text, additional_context, conversation_id, current_path, c) ==
  LET logged == log_message(conversation_id, current_path,
                            <<"Local user to Agent ">> \o AGENT_ID, user_text, c, 1)
  IN IF ~LogOk(c, 1) THEN [reply |-> Unhandled("OSError"), calls |-> logged]
     ELSE IF StartsWith(user_text, <<"@">>)
       THEN DirectedSend(b, msg, user_text, conversation_id, current_path, c, logged)
     ELSE IF StartsWith(user_text, <<"#">>)
       THEN ToolQuery(msg, user_text, conversation_id, c, logged)
     ELSE IF StartsWith(user_text, <<"/">>)
       THEN SlashCommand(msg, user_text, additional_context, conversation_id,
                         current_path, c, logged)
     ELSE PlainText(msg, user_text, additional_context, conversation_id,
                    current_path, c, logged)

\* mutant: the peer's message is logged before it is acknowledged
PeerAcknowledgment_Logged(msg, conversation_id, current_path, c) ==
  [reply |-> TextReply(<<"Message from peer received">>, msg, conversation_id),
   calls |-> log_message(conversation_id, current_path,
                         <<"Peer to Agent ">> \o AGENT_ID, msg.text, c, 0)]

\* handle_message, lines 682-690: a message marked is_from_peer
PeerAcknowledgment(msg, conversation_id, current_path, c) ==
  [reply |-> TextReply(<<"Message from peer received">>, msg, conversation_id),
   calls |-> <<>>]

\* mutant: a message marked is_external counts as one from a peer
FromPeer_OrExternal(metadata) ==
  MetaGet(metadata, "is_from_peer", FALSE) \/ MetaGet(metadata, "is_external", FALSE)

\* is_from_peer = metadata.get('is_from_peer', False), the test of the peer
\* branch
FromPeer(metadata) == MetaGet(metadata, "is_from_peer", FALSE)

\* AgentBridge.handle_message(msg) on bridge b; c is what the collaborators
\* do during the call.  The result is the reply (or the exception raised) and
\* the collaborator calls made, in order.
handle_message(b, msg, c) ==
  LET conversation_id == ConversationIdOf(msg)
  IN IF msg.content_kind = "no_text"
       THEN [reply |-> Unhandled("AttributeError"), calls |-> <<>>]
     ELSE
       LET user_text == msg.text
           path == MetaGet(msg.metadata, "path", <<>>)
           source_agent == MetaGet(msg.metadata, "source_agent", <<>>)
           is_from_peer == FromPeer(msg.metadata)
           is_external == MetaGet(msg.metadata, "is_external", FALSE)
           from_agent == MetaGet(msg.metadata, "from_agent_id", <<"unknown">>)
           additional_context == MetaGet(msg.metadata, "additional_context", <<>>)
           current_path == CurrentPath(path, AGENT_ID)
           external ==
             IF StartsWith(user_text, <<EXT>>)
               THEN handle_external_message(user_text, conversation_id, msg, c)
             ELSE Did(None, <<>>)
       IN IF msg.content_kind # "text"
            THEN [reply |-> ErrorReply(<<"Only text payloads supported.">>,
                                       msg, conversation_id),
                  calls |-> <<>>]
          ELSE IF ~external.value.none
            THEN [reply |-> external.value.reply, calls |-> external.calls]
          ELSE IF is_from_peer
            THEN PeerAcknowledgment(msg, conversation_id, current_path, c)
          ELSE FromLocalUser(b, msg, user_text, additional_context,
                             conversation_id, current_path, c)

\* -------------------------------------------------------------- router inputs
\* most log_message calls one handle_message makes (lines 693 and 708 or 181)
MaxLogCalls == 2

\* envelopes as a peer's send_to_agent builds them, and damaged ones
Envelopes ==
  {FormatEnvelope(<<"b">>, <<"a">>, <<"x">>),
   FormatEnvelope(<<"b">>, <<"a">>, <<"x", SP, NL>>),
   FormatEnvelope(<<"b">>, <<"a">>, <<>>),
   FormatEnvelope(<<"b">>, <<"b">>, <<"@", "b", SP, "x">>),
   <<EXT>>,
   <<EXT, NL, MESSAGE_START, NL, "x">>,
   <<EXT, "x">>,
   <<EXT, SP, "x">>}

DirectedTexts ==
  {<<"@", "b", SP, "x">>, <<"@", "b">>, <<"@", SP, "x">>, <<"@", "b", SP>>,
   <<"@", "b", SP, "x", SP>>}

ToolTexts ==
  {<<"#", "p", ":", "t", SP, "q">>, <<"#", "p", "t", SP, "q">>,
   <<"#", "p", ":", "t", ":", "u", SP, "q">>, <<"#", "p", ":", "t">>,
   <<"#", "p", ":", SP, "q">>, <<"#", "p", ":", "t", SP>>}

CommandTexts ==
  {<<"/", "quit">>, <<"/", "help">>, <<"/", "query">>,
   <<"/", "query", SP, "q">>, <<"/", "xyz">>, <<"/">>,
   <<"/", "quit", SP, "x">>}

PlainTexts == {<<"x">>, <<>>}

RouterTexts ==
  Envelopes \cup DirectedTexts \cup ToolTexts \cup CommandTexts \cup PlainTexts

\* msg.metadata custom fields: none of the keys, or all three; the fields
\* come from the sender's JSON, so additional_context need not be a str
\* the custom fields send_to_agent attaches to what it sends to a peer
PeerMetadata ==
  [is_external |-> TRUE, from_agent_id |-> <<"b">>, to_agent_id |-> <<"a">>,
   path |-> <<"b">>, source_agent |-> <<"b">>]

MetadataSet ==
  {[other |-> <<>>], PeerMetadata}
  \cup [path : {<<>>, <<"x">>}, is_from_peer : BOOLEAN,
        additional_context : {<<>>, <<"c">>, PyNumber}]

\* msg.content: a TextContent, a content object without a text attribute, or
\* another object that has one
Messages ==
  [content_kind : {"text"}, text : RouterTexts,
   conversation_id : {<<>>, <<"c1">>}, message_id : {"m1"},
   metadata : MetadataSet]
  \cup
  [content_kind : {"no_text", "other_text"}, text : {<<"x">>},
   conversation_id : {<<>>, <<"c1">>}, message_id : {"m1"},
   metadata : {[other |-> <<>>]}]

Lookups == {None, Some(<<"http://b">>), Some(<<"http://b", "/a2a">>)}

Resolves ==
  {None,
   [none |-> FALSE, endpoint |-> None, registry_name |-> "other"],
   [none |-> FALSE, endpoint |-> Some(<<"http://t">>), registry_name |-> "other"],
   [none |-> FALSE, endpoint |-> Some(<<"http://t">>),
    registry_name |-> "smithery"]}

\* the collaborator behaviours that can make a difference to the handling of
\* msg; every collaborator the handling cannot reach stays quiet
OutcomesFor(msg) ==
  LET t == msg.text
      head == IF t = <<>> THEN "" ELSE t[1]
      envelope == head = EXT /\ ParseExternal(t).ok
      local == msg.content_kind = "text" /\ ~envelope
               /\ ~MetaGet(msg.metadata, "is_from_peer", FALSE)
      generates == local /\ (\/ head \notin {"@", "#"}
                             \/ head = "@" /\ IMPROVE_MESSAGES)
  IN [log_fail : IF generates \/ (local /\ head = "@" /\ IMPROVE_MESSAGES)
                   THEN 0..MaxLogCalls
                 ELSE IF local THEN 0..1 ELSE {0},
      gen : IF generates THEN GenOutcomes ELSE {QuietCollab.gen},
      lookup : IF local /\ head = "@" THEN Lookups ELSE {None},
      deliver : IF local /\ head = "@" THEN {"ok", "error"} ELSE {"ok"},
      ui : IF msg.content_kind = "text" /\ envelope /\ UI_MODE
             THEN {"unset", "200", "500", "error"} ELSE {"unset"},
      terminal : IF msg.content_kind = "text" /\ envelope /\ ~UI_MODE
                   THEN {"ok", "error"} ELSE {"ok"},
      resolve : IF local /\ head = "#" THEN Resolves ELSE {None},
      invoke : IF local /\ head = "#" THEN {"ok", "error"} ELSE {"ok"}]

\* ------------------------------------------------------------- router actions
\* mutant: the file is opened with "w", which truncates it
FileAppend_Truncate(log, entry) == <<entry>>

\* with open(log_filename, "a"): write one line at the end of the file
FileAppend(log, entry) == log \o <<entry>>

\* the log files after the successful log_message calls of cs
RECURSIVE AppendLogs(_, _, _)
AppendLogs(logs, cs, i) ==
  IF i > Len(cs) THEN logs
  ELSE IF cs[i].fn = "log_message" /\ cs[i].ok
    THEN LET cid == cs[i].conversation_id
             entry == [path |-> cs[i].path, source |-> cs[i].source,
                       message |-> cs[i].message]
         IN AppendLogs([k \in DOMAIN logs \cup {cid} |->
                          IF k = cid
                            THEN FileAppend(IF cid \in DOMAIN logs THEN logs[cid]
                                            ELSE <<>>, entry)
                          ELSE logs[k]],
                       cs, i + 1)
  ELSE AppendLogs(logs, cs, i + 1)

\* the transport hands one message to handle_message of a bridge
HandleMessage ==
  /\ inbound.op = "none"
  /\ \E b \in DOMAIN active_improver, msg \in Messages :
       \E c \in OutcomesFor(msg) :
         LET r == handle_message(b, msg, c)
         IN /\ inbound' = [op |-> "handle_message", bridge |-> b, msg |-> msg]
            /\ collab' = c
            /\ reply' = r.reply
            /\ calls' = r.calls
            /\ conversation_logs' = AppendLogs(conversation_logs, r.calls, 1)
  /\ UNCHANGED <<UI_MODE, SMITHERY_API_KEY, SMITHERY_ENV, in_flight, inputs>>
  /\ UNCHANGED <<codecVars, cfgVars, improverVars, relayVars, mailboxVars>>

\* before that, the embedding program may install its own improver
InstallImprover ==
  /\ inbound.op = "none"
  /\ SetCustomStep

\* the process environment: AGENT_ID=a; UI_MODE, IMPROVE_MESSAGES and
\* SMITHERY_API_KEY as the environment sets them
RouterInit ==
  /\ CodecIdle
  /\ AGENT_ID = <<"a">>
  /\ IMPROVE_MESSAGES \in BOOLEAN
  /\ ImproverInit
  /\ RelayInit
  /\ MailboxInit
  /\ serial = FALSE
  /\ UI_MODE \in BOOLEAN
  /\ SMITHERY_ENV \in {None, Some(<<>>), Some(<<"k">>)}
  /\ SMITHERY_API_KEY = SmitheryKey(SMITHERY_ENV)
  /\ inbound = [op |-> "none"]
  /\ collab = QuietCollab
  /\ reply = [kind |-> "none"]
  /\ calls = <<>>
  /\ conversation_logs = [c \in {} |-> <<>>]
  /\ in_flight = <<>>
  /\ inputs = 0

Next ==
  \/ InstallImprover
  \/ HandleMessage

Spec == RouterInit /\ [][Next]_vars

\* ------------------------------------------------------------ session spec
\* a bridge that handles one message after another: the log files grow
MaxLogged == 3

SessionIds == {<<"c1">>, <<"c2">>}

SessionTexts ==
  {<<"x">>, <<"@", "b", SP, "x">>, FormatEnvelope(<<"b">>, <<"a">>, <<"x">>)}

\* messages of running conversations, which carry their conversation id
SessionMessages ==
  [content_kind : {"text"}, text : SessionTexts, conversation_id : SessionIds,
   message_id : {"m1"}, metadata : {[other |-> <<>>]}]

\* the records in the log file of conversation cid
RecordsOf(logs, cid) == IF cid \in DOMAIN logs THEN logs[cid] ELSE <<>>

\* the transport hands the next message to handle_message
HandleNextMessage ==
  /\ Len(RecordsOf(conversation_logs, <<"c1">>))
       + Len(RecordsOf(conversation_logs, <<"c2">>)) < MaxLogged
  /\ \E b \in DOMAIN active_improver, msg \in SessionMessages :
       \E c \in OutcomesFor(msg) :
         LET r == handle_message(b, msg, c)
         IN /\ inbound' = [op |-> "handle_message", bridge |-> b, msg |-> msg]
            /\ collab' = c
            /\ reply' = r.reply
            /\ calls' = r.calls
            /\ conversation_logs' = AppendLogs(conversation_logs, r.calls, 1)
  /\ UNCHANGED <<UI_MODE, SMITHERY_API_KEY, SMITHERY_ENV, in_flight, inputs>>
  /\ UNCHANGED <<codecVars, cfgVars, improverVars, relayVars, mailboxVars>>

SessionInit ==
  /\ CodecIdle
  /\ AGENT_ID = <<"a">>
  /\ IMPROVE_MESSAGES = TRUE
  /\ ImproverInit
  /\ RelayInit
  /\ MailboxInit
  /\ serial = FALSE
  /\ RouterIdle

SessionNext == HandleNextMessage

SpecSession == SessionInit /\ [][SessionNext]_vars

\* ------------------------------------------------------------ network spec
\* bridges a and b, each registered in the directory and reachable, run as
\* separate processes; AGENT_ID is the environment of the process that takes
\* the next step
MaxInputs == 2

NetTexts == {<<"@", "a", SP, "x">>, <<"@", "b", SP, "x">>}

\* what a local user types at a bridge
NetUserMessages ==
  [content_kind : {"text"}, text : NetTexts, conversation_id : {<<"c1">>},
   message_id : {"m1"}, metadata : {[other |-> <<>>]}]

\* collaborator behaviours with the target registered and the delivery made
NetCollabs(msg) ==
  {[c EXCEPT !.lookup = Some(<<"http://peer">>), !.deliver = "ok"] :
     c \in OutcomesFor(msg)}

\* the messages the peers' transports receive for the deliveries among cs:
\* A2AClient(target_bridge_url).send_message(Message(...)) of send_to_agent
RECURSIVE Delivered(_, _)
Delivered(cs, i) ==
  IF i > Len(cs) THEN <<>>
  ELSE IF cs[i].fn = "send_message" /\ cs[i].ok
    THEN <<[to |-> ParseExternal(cs[i].text).to_agent,
            msg |-> [content_kind |-> "text", text |-> cs[i].text,
                     conversation_id |-> cs[i].conversation_id,
                     message_id |-> "m2", metadata |-> cs[i].metadata]]>>
           \o Delivered(cs, i + 1)
  ELSE Delivered(cs, i + 1)

\* the running process handles msg; the envelopes it delivers are in flight
NetHandle(msg, rest) ==
  \E c \in NetCollabs(msg) :
    LET r == handle_message(1, msg, c)
    IN /\ inbound' = [op |-> "handle_message", bridge |-> 1, msg |-> msg]
       /\ collab' = c
       /\ reply' = r.reply
       /\ calls' = r.calls
       /\ conversation_logs' = AppendLogs(conversation_logs, r.calls, 1)
       /\ in_flight' = rest \o Delivered(r.calls, 1)

\* a local user issues a directed send at the running bridge
NetUserSend ==
  /\ inputs < MaxInputs
  /\ inputs' = inputs + 1
  /\ \E msg \in NetUserMessages : NetHandle(msg, in_flight)
  /\ UNCHANGED <<UI_MODE, SMITHERY_API_KEY, SMITHERY_ENV>>
  /\ UNCHANGED <<codecVars, cfgVars, improverVars, relayVars, mailboxVars>>

\* the running bridge's transport hands it the oldest envelope in flight
\* that is addressed to it
NetPeerHandle ==
  /\ \E i \in 1..Len(in_flight) :
       /\ in_flight[i].to = AGENT_ID
       /\ \A j \in 1..(i - 1) : in_flight[j].to # AGENT_ID
       /\ NetHandle(in_flight[i].msg,
                    SubSeq(in_flight, 1, i - 1)
                      \o SubSeq(in_flight, i + 1, Len(in_flight)))
  /\ UNCHANGED <<UI_MODE, SMITHERY_API_KEY, SMITHERY_ENV, inputs>>
  /\ UNCHANGED <<codecVars, cfgVars, improverVars, relayVars, mailboxVars>>

\* the other process takes the next step
NetSwitch ==
  /\ AGENT_ID' \in AgentIds \ {AGENT_ID}
  /\ UNCHANGED <<IMPROVE_MESSAGES, codecVars, improverVars, relayVars, mailboxVars, routerVars>>

NetInit ==
  /\ CodecIdle
  /\ AGENT_ID = <<"a">>
  /\ IMPROVE_MESSAGES \in BOOLEAN
  /\ ImproverInit
  /\ RelayInit
  /\ MailboxInit
  /\ serial = FALSE
  /\ UI_MODE \in BOOLEAN
  /\ SMITHERY_ENV = None
  /\ SMITHERY_API_KEY = SmitheryKey(None)
  /\ inbound = [op |-> "none"]
  /\ collab = QuietCollab
  /\ reply = [kind |-> "none"]
  /\ calls = <<>>
  /\ conversation_logs = [c \in {} |-> <<>>]
  /\ in_flight = <<>>
  /\ inputs = 0

NetNext ==
  \/ NetUserSend
  \/ NetPeerHandle
  \/ NetSwitch

\* every process keeps running, and a bridge handles what is delivered to it
\* the guard of NetPeerHandle: the current bridge has an envelope waiting
NetPeerReady == \E i \in 1..Len(in_flight) : in_flight[i].to = AGENT_ID

\* every bridge is a server process of its own that keeps running, and its
\* server handles every request it has accepted: WF_vars(NetSwitch) and
\* SF_vars(NetPeerHandle), the latter with ENABLED written as the guard
NetFairness ==
  /\ WF_vars(NetSwitch)
  /\ (<>[](~NetPeerReady) \/ []<><<NetPeerHandle>>_vars)

SpecNetwork ==
  NetInit /\ [][NetNext]_vars /\ NetFairness

\* ------------------------------------------- bridge posting to the UI server
\* a bridge in UI mode handles peer envelopes; send_to_ui_client posts each to
\* /api/receive_message of the UI server, whose handler runs ReceiveLookup,
\* ReceiveOpen and ReceiveDump.  The envelope handled as number n is message n
\* of the server.
PostMessages ==
  [content_kind : {"text"},
   text : {FormatEnvelope(<<"b">>, <<"a">>, <<"x">>),
           FormatEnvelope(<<"b">>, <<"b">>, <<"y">>)},
   conversation_id : {<<"c1">>}, message_id : {"m1"},
   metadata : {[other |-> <<>>]}]

\* handle_message completes with send_to_ui_client's outcome ui
PostHandle(msg, ui) ==
  LET c == [QuietCollab EXCEPT !.ui = ui]
      r == handle_message(1, msg, c)
  IN /\ inbound' = [op |-> "handle_message", bridge |-> 1, msg |-> msg]
     /\ collab' = c
     /\ reply' = r.reply
     /\ calls' = r.calls
     /\ conversation_logs' = AppendLogs(conversation_logs, r.calls, 1)

\* an envelope arrives while UI_CLIENT_URL is empty: nothing is posted
PostUnset ==
  /\ in_flight = <<>>
  /\ inputs < MaxInputs
  /\ inputs' = inputs + 1
  /\ \E msg \in PostMessages : PostHandle(msg, "unset")
  /\ UNCHANGED <<in_flight, UI_MODE, SMITHERY_API_KEY, SMITHERY_ENV>>
  /\ UNCHANGED <<codecVars, cfgVars, improverVars, relayVars, mailboxVars>>

\* requests.post raises before the request reaches the server
PostRefused ==
  /\ in_flight = <<>>
  /\ inputs < MaxInputs
  /\ inputs' = inputs + 1
  /\ \E msg \in PostMessages : PostHandle(msg, "error")
  /\ UNCHANGED <<in_flight, UI_MODE, SMITHERY_API_KEY, SMITHERY_ENV>>
  /\ UNCHANGED <<codecVars, cfgVars, improverVars, relayVars, mailboxVars>>

\* requests.post reaches the server: receive_message starts on a free thread
\* and the bridge waits for the response
PostArrive ==
  /\ in_flight = <<>>
  /\ inputs < MaxInputs
  /\ inputs' = inputs + 1
  /\ \E msg \in PostMessages, t \in Threads :
       /\ req[t].pc = "idle"
       /\ req' = [req EXCEPT ![t] = [op |-> "receive", pc |-> "lookup",
                                     msg |-> inputs + 1, stale |-> FALSE,
                                     res |-> NoResult]]
       /\ in_flight' = <<[to |-> <<"ui">>, msg |-> msg, thread |-> t]>>
  /\ inbound' = [op |-> "none"]
  /\ reply' = [kind |-> "none"]
  /\ calls' = <<>>
  /\ UNCHANGED <<collab, conversation_logs, UI_MODE, SMITHERY_API_KEY, SMITHERY_ENV>>
  /\ UNCHANGED <<latest_message, next_msg, serial, slot, delivered>>
  /\ UNCHANGED <<codecVars, cfgVars, improverVars, relayVars>>

\* the response arrives: status 200 after the dump, 500 after a failed lookup
PostAnswer ==
  /\ in_flight # <<>>
  /\ req[in_flight[1].thread].pc = "idle"
  /\ PostHandle(in_flight[1].msg,
                IF req[in_flight[1].thread].res.kind = "received" THEN "200"
                ELSE "500")
  /\ in_flight' = <<>>
  /\ UNCHANGED <<inputs, UI_MODE, SMITHERY_API_KEY, SMITHERY_ENV>>
  /\ UNCHANGED <<codecVars, cfgVars, improverVars, relayVars, mailboxVars>>

\* timeout=10 expires before the response: requests.post raises while
\* receive_message is still running (its own registry request has no timeout)
PostTimeout ==
  /\ in_flight # <<>>
  /\ req[in_flight[1].thread].pc # "idle"
  /\ PostHandle(in_flight[1].msg, "error")
  /\ in_flight' = <<>>
  /\ UNCHANGED <<inputs, UI_MODE, SMITHERY_API_KEY, SMITHERY_ENV>>
  /\ UNCHANGED <<codecVars, cfgVars, improverVars, relayVars, mailboxVars>>

PostInit ==
  /\ CodecIdle
  /\ AGENT_ID = <<"a">>
  /\ IMPROVE_MESSAGES = TRUE
  /\ ImproverInit
  /\ RelayInit
  /\ MailboxInit
  /\ RouterIdle
  /\ serial = FALSE

PostNext ==
  \/ PostUnset
  \/ PostRefused
  \/ PostArrive
  \/ PostAnswer
  \/ PostTimeout
  \/ ReceiveLookup
  \/ ReceiveOpen
  \/ ReceiveDump

SpecUiPost == PostInit /\ [][PostNext]_vars

\* --------------------------------------------------------------- path spec
\* one run of the path extension of handle_message: the path an inbound
\* message carries and the id of the bridge that handles it
PathInputs ==
  [op : {"current_path"}, path : TextsUpTo({"a", "b", ">"}, MaxPath),
   agent_id : AgentIds \cup {<<"a", "b">>, <<>>}]

PathInit ==
  /\ codec_in \in PathInputs
  /\ codec_out = [done |-> FALSE]
  /\ AGENT_ID = codec_in.agent_id
  /\ IMPROVE_MESSAGES = TRUE
  /\ ImproverInit
  /\ RelayInit
  /\ MailboxInit
  /\ RouterIdle
  /\ serial = FALSE

\* handle_message extends the path (lines 652-661)
ExtendPath ==
  /\ codec_in.op = "current_path"
  /\ ~codec_out.done
  /\ codec_out' = [done |-> TRUE,
                   current_path |-> CurrentPath(codec_in.path, AGENT_ID)]
  /\ UNCHANGED <<codec_in, cfgVars, improverVars, relayVars, mailboxVars,
                 routerVars>>

PathNext == ExtendPath

SpecPath == PathInit /\ [][PathNext]_vars

\* ---------------------------------------------------------------- URL spec
\* one run of the forward-address normalization of send_to_agent on a URL the
\* registry returned; "/a2a" is one symbol, "a2a" and "/" are others
UrlInputs ==
  [op : {"target_bridge_url"},
   agent_url : {<<"http://b">> \o tail :
                  tail \in TextsUpTo({"/a2a", "/", "a2a", "x"}, MaxUrl)}]

UrlInit ==
  /\ codec_in \in UrlInputs
  /\ codec_out = [done |-> FALSE]
  /\ AGENT_ID = <<"a">>
  /\ IMPROVE_MESSAGES = TRUE
  /\ ImproverInit
  /\ RelayInit
  /\ MailboxInit
  /\ RouterIdle
  /\ serial = FALSE

\* send_to_agent composes the address it posts to (lines 309-314)
NormalizeUrl ==
  /\ codec_in.op = "target_bridge_url"
  /\ ~codec_out.done
  /\ codec_out' = [done |-> TRUE,
                   target_bridge_url |-> TargetBridgeUrl(codec_in.agent_url)]
  /\ UNCHANGED <<codec_in, cfgVars, improverVars, relayVars, mailboxVars,
                 routerVars>>

UrlNext == NormalizeUrl

SpecUrl == UrlInit /\ [][UrlNext]_vars

\* ==================================================================== claims
\* C2: for every sender f, target t and body b with no line equal to the end
\* marker, parsing the envelope built for (f, t, b) yields from = f, to = t and
\* body = b.
C2_RoundTrip ==
  (codec_in.op = "roundtrip" /\ codec_out.done /\ NoEndMarkerLine(codec_in.b)) =>
    /\ codec_out.parsed.ok
    /\ codec_out.parsed.from_agent = codec_in.f
    /\ codec_out.parsed.to_agent = codec_in.t
    /\ codec_out.parsed.message_content = codec_in.b

\* C7: improve_message_direct never raises: when the active improver raises, or
\* no function is registered under the active name, it returns the input text
\* unchanged; otherwise it returns the improver's result.
C7_ApplyActiveFailsOpen ==
  imp_ret.op = "improve_message_direct" =>
    LET fn == get_message_improver(active_improver[imp_ret.bridge])
        r == CallImprover(fn, imp_ret.text, imp_ret.gen)
    IN /\ ~imp_ret.result.raised
       /\ (fn = FN_NONE \/ r.raised) => imp_ret.result.value = imp_ret.text
       /\ (fn # FN_NONE /\ ~r.raised) => imp_ret.result.value = r.value

\* the active improver raised and the input text came back
C7_Witness ==
  /\ imp_ret.op = "improve_message_direct"
  /\ get_message_improver(active_improver[imp_ret.bridge]) = FN_RAISE
  /\ imp_ret.text = <<"a">>
  /\ imp_ret.result = Returned(<<"a">>)

\* C8: set_message_improver with an unregistered name returns False and leaves
\* the active improver unchanged, so a following improve_message_direct applies
\* the same improver as before; with a registered name it returns True and that
\* name becomes active.
C8_SetActive ==
  [][\A b \in DOMAIN active_improver, n \in ImproverNames \cup {"nonexistent"} :
       (/\ imp_ret'.op = "set_message_improver"
        /\ imp_ret'.bridge = b
        /\ imp_ret'.name = n) =>
         IF n \in DOMAIN message_improvement_decorators
           THEN imp_ret'.result = TRUE /\ active_improver'[b] = n
         ELSE /\ imp_ret'.result = FALSE
              /\ active_improver' = active_improver
              /\ \A t \in ImpTexts, gen \in GenOutcomes :
                   improve_message_direct(active_improver[b], t, gen)'
                     = improve_message_direct(active_improver[b], t, gen)]_vars

\* an unregistered name was refused while a custom improver was active
C8_Witness ==
  /\ imp_ret.op = "set_message_improver"
  /\ imp_ret.name = "nonexistent"
  /\ imp_ret.result = FALSE
  /\ active_improver[imp_ret.bridge] = "custom"

\* number of occurrences of x in sequence q
Occurrences(q, x) == Cardinality({i \in 1..Len(q) : q[i] = x})

\* C3: publish calls for a subscribed client, in any interleaving, never drop a
\* message: what the stream has yielded followed by what is still queued is
\* every message put, each exactly once, in the order they were enqueued.
C3_NoDropInOrder ==
  /\ \A c \in DOMAIN client_queues :
       yielded[c] \o client_queues[c].queue = enq_order[c]
  /\ \A k \in PubCalls :
       (pub[k].accepted /\ pub[k].pc \in {"set", "done"}) =>
         /\ pub[k].client \in DOMAIN client_queues
         /\ Occurrences(yielded[pub[k].client]
                          \o client_queues[pub[k].client].queue, k) = 1

\* every call published to one client and its stream has yielded them all
C3_Witness ==
  /\ \A k \in PubCalls : pub[k].pc = "done" /\ pub[k].accepted /\ pub[k].client = "c1"
  /\ Len(yielded["c1"]) = MaxPublish
  /\ yielded["c1"][1] # 1

\* C4: whenever the stream consumer is blocked waiting for the signal, and no
\* publish call stands between its enqueue and its raising of the signal, the
\* queue is empty (the consumer drained every queued message before blocking
\* again), so no queued message waits for a later publish.
C4_BlockedImpliesDrained ==
  \A c \in DOMAIN client_queues :
    (/\ stream[c] = "wait"
     /\ ~client_queues[c].event
     /\ \A k \in PubCalls : ~(pub[k].pc = "set" /\ pub[k].client = c))
      => client_queues[c].queue = <<>>

\* C5: under any interleaving of concurrent render_on_ui calls a stored message
\* is returned by at most one call, and no call ends in an error (here: the
\* errors a concurrent render causes, the file being gone at open or remove).
C5_ExactlyOnceNoError ==
  /\ \A m \in Msgs : delivered[m] <= 1
  /\ \A t \in Threads : req[t].op = "render" => req[t].res.kind # "error_missing"

\* a render call returns in this step
RenderReturns(t) ==
  req[t].op = "render" /\ req[t].pc # "idle" /\ req'[t].pc = "idle"

\* C6: the mailbox is single-slot, last-write-wins and destructive on read:
\* with requests handled one after another, a render returns the message of
\* the last receive since the last render, or {} when there is none, and
\* leaves no file behind.
C6_SingleSlot ==
  [][\A t \in Threads :
       RenderReturns(t) =>
         /\ req'[t].res = IF slot = 0 THEN [kind |-> "empty", m |-> 0]
                          ELSE [kind |-> "message", m |-> slot]
         /\ ~latest_message'.exists]_vars

\* two messages were received in a row and render returned the second
C6_Witness ==
  /\ \E t \in Threads :
       /\ req[t].op = "render"
       /\ req[t].pc = "idle"
       /\ req[t].res = [kind |-> "message", m |-> 2]
  /\ delivered[1] = 0
  /\ serial

\* the run has handled a message
Handled == inbound.op = "handle_message"

\* C1: for every inbound message and every outcome of the collaborators (log
\* append included), handle_message returns a reply message and never raises.
C1_NeverRaises ==
  Handled => reply.kind \in {"text", "error"}

\* the calls of the run made to collaborator fn
CallsTo(fn) == {i \in 1..Len(calls) : calls[i].fn = fn}

\* the inbound text is a directed send "@<agentId> <text>"
IsDirectedSend ==
  /\ Handled
  /\ inbound.msg.content_kind = "text"
  /\ StartsWith(inbound.msg.text, <<"@">>)
  /\ Len(Split1(inbound.msg.text, SP)) > 1
  /\ ~MetaGet(inbound.msg.metadata, "is_from_peer", FALSE)

\* C9: a directed send whose directory lookup returns absent still yields a
\* normal text reply echoing the (possibly improved) text, never an error
\* reply or an unhandled error, and no envelope is delivered to any peer.
C9_AbsentLookupEchoes ==
  (IsDirectedSend /\ collab.lookup = None) =>
    /\ reply.kind = "text"
    /\ \E improved \in {Split1(inbound.msg.text, SP)[2],
                         Split1(inbound.msg.text, SP)[2] \o <<"!">>,
                         <<"g">>,
                         <<"Agent ">> \o AGENT_ID
                           \o <<" processed (API credit limit reached): ">>
                           \o Split1(inbound.msg.text, SP)[2]} :
         reply.text = <<"[AGENT ">> \o AGENT_ID \o <<"]: ">> \o improved
    /\ CallsTo("send_message") = {}

\* the inbound message is an envelope and the bridge is in UI-relay mode
IsUiEnvelope ==
  /\ Handled
  /\ UI_MODE
  /\ inbound.msg.content_kind = "text"
  /\ StartsWith(inbound.msg.text, <<EXT>>)
  /\ ParseExternal(inbound.msg.text).ok

\* C10: in UI-relay mode, handling one envelope makes exactly one
\* send_to_ui_client call, carrying the decoded body and sender, and replies
\* "Message received by Agent <id>"; nothing is logged and no improver,
\* generation, lookup or peer delivery takes place.
C10_UiEnvelope ==
  IsUiEnvelope =>
    LET parsed == ParseExternal(inbound.msg.text)
    IN /\ Len(calls) = 1
       /\ calls[1].fn = "send_to_ui_client"
       /\ calls[1].message = <<"FROM ">> \o parsed.from_agent \o <<": ">>
                                \o parsed.message_content
       /\ calls[1].from_agent = parsed.from_agent
       /\ calls[1].conversation_id = ConversationIdOf(inbound.msg)
       /\ reply.kind = "text"
       /\ reply.text = <<"Message received by Agent ">> \o AGENT_ID
       /\ reply.parent_message_id = inbound.msg.message_id
       /\ conversation_logs = [c \in {} |-> <<>>]

C10_Witness ==
  /\ IsUiEnvelope
  /\ inbound.msg.text = FormatEnvelope(<<"b">>, <<"a">>, <<"x">>)
  /\ collab.ui = "200"
  /\ Len(calls) = 1
  /\ calls[1].message = <<"FROM ", "b", ": ", "x">>
  /\ reply.text = <<"Message received by Agent ", "a">>

\* the inbound message reached the local-user part of the router (it is text,
\* not a decodable envelope, and not marked is_from_peer)
IsLocal ==
  /\ Handled
  /\ inbound.msg.content_kind = "text"
  /\ ~(StartsWith(inbound.msg.text, <<EXT>>) /\ ParseExternal(inbound.msg.text).ok)
  /\ ~MetaGet(inbound.msg.metadata, "is_from_peer", FALSE)

\* the inbound text is a tool query "#<provider>:<tool> <query>"
IsToolQuery ==
  /\ IsLocal
  /\ StartsWith(inbound.msg.text, <<"#">>)
  /\ Len(Split1(inbound.msg.text, SP)) > 1
  /\ Len(Split1(Tail(Split1(inbound.msg.text, SP)[1]), ":")) = 2

\* the reply that reports a missing provider credential
ConfigErrorReply ==
  /\ reply.kind = "text"
  /\ reply.text = Tag(AGENT_ID)
       \o <<"Ensure the required API key for registery is in env file">>

\* C11: a tool query whose resolved provider requires a credential (smithery)
\* while that credential is unset in the environment is answered with the
\* configuration-error reply, and run_mcp_query is never called (stated for
\* runs in which the log append succeeds).
C11_UnsetCredential ==
  (/\ IsToolQuery
   /\ collab.log_fail = 0
   /\ ~collab.resolve.none
   /\ collab.resolve.registry_name = "smithery"
   /\ ~Truthy(SMITHERY_ENV)) =>
     /\ ConfigErrorReply
     /\ CallsTo("run_mcp_query") = {}

\* the peer deliveries among the calls cs
IsDelivery(call) == call.fn = "send_message"
Deliveries(cs) == SelectSeq(cs, IsDelivery)

\* C12: a failing log append never blocks message delivery: for a directed
\* send, tool query, slash command or plain text, handle_message with a failing
\* append returns the same reply and makes the same peer delivery as it does
\* when every append succeeds.
C12_LogFailureHarmless ==
  (IsLocal /\ collab.log_fail # 0) =>
    LET logging == handle_message(inbound.bridge, inbound.msg,
                                  [collab EXCEPT !.log_fail = 0])
    IN /\ reply = logging.reply
       /\ Deliveries(calls) = Deliveries(logging.calls)

\* C13: a message whose content is not text is answered with the error-content
\* reply "Only text payloads supported.", with no log entry and no collaborator
\* call, and no other input is answered with an error-content reply.
C13_OnlyNonTextIsError ==
  Handled =>
    /\ inbound.msg.content_kind # "text" =>
         /\ reply.kind = "error"
         /\ reply.text = <<"Only text payloads supported.">>
         /\ calls = <<>>
         /\ conversation_logs = [c \in {} |-> <<>>]
    /\ inbound.msg.content_kind = "text" => reply.kind # "error"

\* the branch the classification order assigns to a text message: the first
\* of envelope, peer acknowledgment, "@", "#", "/", plain text that matches
ExpectedBranch ==
  LET t == inbound.msg.text
  IN IF StartsWith(t, <<EXT>>) /\ Split(t, NL)[1] = <<EXT>> THEN "envelope"
     ELSE IF MetaGet(inbound.msg.metadata, "is_from_peer", FALSE) THEN "peer"
     ELSE IF StartsWith(t, <<"@">>) THEN "directed"
     ELSE IF StartsWith(t, <<"#">>) THEN "tool"
     ELSE IF StartsWith(t, <<"/">>) THEN "command"
     ELSE "plain"

\* some call of the run went to the generation service with this system role
Generated(system) ==
  \E i \in CallsTo("messages.create") : calls[i].system = system

\* the traces each branch leaves in the reply and the collaborator calls
BranchTrace(branch) ==
  CASE branch = "envelope" ->
         CallsTo("send_to_ui_client") \cup CallsTo("terminal.send_message_threaded")
           # {}
    [] branch = "peer" ->
         reply.kind = "text" /\ reply.text = <<"Message from peer received">>
    [] branch = "directed" ->
         \/ CallsTo("lookup_agent") # {}
         \/ /\ reply.kind = "text"
            /\ reply.text = Tag(AGENT_ID)
                 \o <<"Invalid format. Use '@agent_id message' to send a message.">>
    [] branch = "tool" ->
         \/ CallsTo("get_mcp_server_url") # {}
         \/ /\ reply.kind = "text"
            /\ reply.text = Tag(AGENT_ID)
                 \o <<"Invalid format. Use '#registry_provider:mcp_server_name query' to send a query to an MCP server.">>
    [] branch = "command" ->
         \/ Generated(QuerySystemPrompt)
         \/ /\ reply.kind = "text"
            /\ reply.text \in
                 {Tag(AGENT_ID) \o <<"Exiting session...">>,
                  Tag(AGENT_ID) \o HelpLines,
                  Tag(AGENT_ID) \o <<"Unknown command. ">> \o HelpLines,
                  Tag(AGENT_ID)
                    \o <<"Please provide a query after the /query command.">>}
    [] branch = "plain" -> Generated(DefaultSystemPrompt)

Branches == {"envelope", "peer", "directed", "tool", "command", "plain"}

\* C14: each inbound text message is handled by exactly one branch, the first
\* that matches in the order envelope, is_from_peer acknowledgment, "@", "#",
\* "/", plain text; so a peer-marked "@", "#" or "/" text is only
\* acknowledged and a peer-marked envelope is handled as an envelope.
C14_FirstMatchWins ==
  (Handled /\ inbound.msg.content_kind = "text") =>
    \A branch \in Branches : BranchTrace(branch) <=> branch = ExpectedBranch

\* C15: for every text whose first line is not exactly the start marker (a
\* first line that only begins with it included) the decoder returns absent:
\* nothing is published to the UI or forwarded to the terminal, and the router
\* goes on with the remaining steps, the is_from_peer acknowledgment or else
\* the handling of a local user's message, which starts with its log append.
C15_NotAnEnvelope ==
  (/\ Handled
   /\ inbound.msg.content_kind = "text"
   /\ Split(inbound.msg.text, NL)[1] # <<EXT>>) =>
     /\ ~ParseExternal(inbound.msg.text).ok
     /\ CallsTo("send_to_ui_client") = {}
     /\ CallsTo("terminal.send_message_threaded") = {}
     /\ IF MetaGet(inbound.msg.metadata, "is_from_peer", FALSE)
          THEN reply.kind = "text" /\ reply.text = <<"Message from peer received">>
        ELSE /\ calls # <<>>
             /\ calls[1].fn = "log_message"
             /\ calls[1].message = inbound.msg.text

\* a text that begins with the marker without being an envelope was handled
\* as a local user's plain text
C15_Witness ==
  /\ Handled
  /\ inbound.msg.content_kind = "text"
  /\ inbound.msg.text = <<EXT, "x">>
  /\ UI_MODE
  /\ Generated(DefaultSystemPrompt)
  /\ reply.kind = "text"
  /\ reply.text = Tag(AGENT_ID) \o <<EXT, "x">>

\* the hops a path lists
Hops(path) == IF path = <<>> THEN <<>> ELSE Split(path, ">")

\* C16: the path extension gives a for the empty path and p + ">" + a for a
\* non-empty p, so the extended path always ends with the bridge's id, the id
\* is appended exactly once (one more hop, the id, for an id that is a
\* non-empty word without ">"), and extending twice ends with the second id.
C16_AppendToPath ==
  (codec_in.op = "current_path" /\ codec_out.done) =>
    LET p == codec_in.path
        a == codec_in.agent_id
        r == codec_out.current_path
    IN /\ p = <<>> => r = a
       /\ p # <<>> => r = p \o <<">">> \o a
       /\ EndsWith(r, a)
       /\ Len(r) = Len(p) + Len(a) + (IF p = <<>> THEN 0 ELSE 1)
       /\ a # <<>> => Hops(r) = Hops(p) \o <<a>>
       /\ \A y \in AgentIds : EndsWith(CurrentPath(r, y), y)

\* a non-empty path was extended behind a separator
C16_Witness ==
  /\ codec_in.op = "current_path"
  /\ codec_out.done
  /\ codec_in.path = <<"a">>
  /\ codec_in.agent_id = <<"b">>
  /\ codec_out.current_path = <<"a", ">", "b">>

\* the word after "/" in a slash command
CommandOf(text) == Tail(Split1(text, SP)[1])

\* the inbound text is "/help" or a slash command that is none of quit, help
\* and query
IsHelpOrUnknown ==
  /\ IsLocal
  /\ StartsWith(inbound.msg.text, <<"/">>)
  /\ CommandOf(inbound.msg.text) \notin {<<"quit">>, <<"query">>}

\* C17: "/help" and every unrecognized slash command both return a reply that
\* lists the same four commands (/help, /quit, /query, @<agent_id>), and
\* neither calls a collaborator (the log append aside).
C17_HelpAndUnknown ==
  IsHelpOrUnknown =>
    /\ reply.kind = "text"
    /\ reply.text =
         IF CommandOf(inbound.msg.text) = <<"help">> THEN Tag(AGENT_ID) \o HelpLines
         ELSE Tag(AGENT_ID) \o <<"Unknown command. ">> \o HelpLines
    /\ \A i \in 1..Len(calls) : calls[i].fn = "log_message"

\* the inbound text is plain: a local user's text without "@", "#" or "/"
IsPlainText ==
  /\ IsLocal
  /\ ~StartsWith(inbound.msg.text, <<"@">>)
  /\ ~StartsWith(inbound.msg.text, <<"#">>)
  /\ ~StartsWith(inbound.msg.text, <<"/">>)

\* C18: for a plain-text message the reply carries the generated text when
\* generation succeeds (the credit-limit notice of the generation wrapper
\* counts as its text), and the original input text whenever generation fails
\* or returns nothing; the reply is never an error.
C18_PlainTextFallback ==
  IsPlainText =>
    /\ reply.kind = "text"
    /\ reply.text = Tag(AGENT_ID) \o
         (IF collab.gen.kind = "text" /\ collab.gen.text # <<>>
            THEN collab.gen.text
          ELSE IF collab.gen.kind = "credit"
            THEN <<"Agent ">> \o AGENT_ID
                   \o <<" processed (API credit limit reached): ">>
                   \o inbound.msg.text
          ELSE inbound.msg.text)

\* the inbound message is a text that is no envelope and is marked is_from_peer
IsPeerMarked ==
  /\ Handled
  /\ inbound.msg.content_kind = "text"
  /\ Split(inbound.msg.text, NL)[1] # <<EXT>>
  /\ MetaGet(inbound.msg.metadata, "is_from_peer", FALSE)

RECURSIVE TrailingSuffixes(_)
TrailingSuffixes(url) ==
  IF EndsWith(url, <<"/a2a">>)
    THEN 1 + TrailingSuffixes(SubSeq(url, 1, Len(url) - 1))
  ELSE 0

\* C20: the forward-address normalization of send_to_agent is idempotent, and
\* its result ends with exactly one "/a2a" routing suffix for every registered
\* URL, those that already end with "/a2a", "/a2a/" or "/a2a/a2a" included.
C20_NormalizeOnce ==
  (codec_in.op = "target_bridge_url" /\ codec_out.done) =>
    /\ TargetBridgeUrl(codec_out.target_bridge_url) = codec_out.target_bridge_url
    /\ TrailingSuffixes(codec_out.target_bridge_url) = 1

\* the improvement logic returns (does not raise) on this text
Succeeds(fn, text, gen) == ~CallImprover(fn, text, gen).raised

\* C21: after NANDA(fn) is constructed its bridge's active improver is fn:
\* improve_message_direct on that bridge returns fn(text) whenever fn
\* succeeds, for every NANDA object of the process, after any later NANDA
\* constructions and improver registrations.
C21_NandaKeepsItsLogic ==
  \A i \in 1..Len(nandas) : \A text \in ImpTexts, gen \in GenOutcomes :
    Succeeds(nandas[i].improvement_logic, text, gen) =>
      improve_message_direct(active_improver[nandas[i].bridge], text, gen)
        = CallImprover(nandas[i].improvement_logic, text, gen)

\* the inbound text's first line is the start marker, yet the decoder finds no
\* FROM field or no TO field in it
IsHeaderlessEnvelope ==
  /\ Handled
  /\ inbound.msg.content_kind = "text"
  /\ Split(inbound.msg.text, NL)[1] = <<EXT>>
  /\ \/ ParseExternal(inbound.msg.text).from_agent = PyNone
     \/ ParseExternal(inbound.msg.text).to_agent = PyNone

\* C22: a text whose first line is the start marker but in which decoding
\* finds no FROM field or no TO field is not treated as a peer delivery:
\* nothing is published to the UI or forwarded to the terminal, the reply is
\* not the "Message received by Agent" acknowledgment, and the message falls
\* through to the remaining steps (the is_from_peer acknowledgment, or else the
\* handling of a local user's message, which starts with its log append).
C22_HeaderlessFallsThrough ==
  IsHeaderlessEnvelope =>
    /\ CallsTo("send_to_ui_client") = {}
    /\ CallsTo("terminal.send_message_threaded") = {}
    /\ ~(reply.kind = "text" /\ reply.text = ReceivedBy(AGENT_ID))
    /\ IF MetaGet(inbound.msg.metadata, "is_from_peer", FALSE)
         THEN reply.kind = "text" /\ reply.text = <<"Message from peer received">>
       ELSE /\ calls # <<>>
            /\ calls[1].fn = "log_message"
            /\ calls[1].message = inbound.msg.text

\* the usage-error reply of the "#" branch
ToolUsageReply ==
  /\ reply.kind = "text"
  /\ reply.text = Tag(AGENT_ID)
       \o <<"Invalid format. Use '#registry_provider:mcp_server_name query' to send a query to an MCP server.">>

\* the text has the form the tool query requires: exactly one ":" in the first
\* token and a non-empty remainder after the first space
WellFormedToolQuery(text) ==
  LET parts == Split1(text, SP)
  IN /\ Len(Split(Tail(parts[1]), ":")) = 2
     /\ Len(parts) > 1
     /\ parts[2] # <<>>

\* C23: a "#" message is accepted as a tool query (its tool is resolved) only
\* if its first token contains exactly one ":" and the remainder after the
\* first space is non-empty; every other "#" message gets the usage-error
\* reply, with no tool resolve and no tool invocation (stated for runs in which
\* the log append succeeds).
C23_ToolQueryForm ==
  (IsLocal /\ StartsWith(inbound.msg.text, <<"#">>) /\ collab.log_fail = 0) =>
    IF WellFormedToolQuery(inbound.msg.text)
      THEN CallsTo("get_mcp_server_url") # {}
    ELSE /\ ToolUsageReply
         /\ CallsTo("get_mcp_server_url") = {}
         /\ CallsTo("run_mcp_query") = {}

\* what the active improver of the handling bridge makes of the text of the
\* directed send
ImproverOutput ==
  improve_message_direct(active_improver[inbound.bridge],
                         Split1(inbound.msg.text, SP)[2], collab.gen).value

\* C24: for every directed send the router applies the bridge's active
\* improver to the text, then appends a log entry holding the improved text,
\* then resolves the target through the directory, in that order, and the text
\* put in the envelope and echoed in the reply is the improver's output; for
\* every configuration of the bridge (stated for runs in which the log appends
\* succeed).
C24_ImproveLogResolve ==
  (IsDirectedSend /\ collab.log_fail = 0) =>
    /\ \E i, j, k \in 1..Len(calls) :
         /\ i < j /\ j < k
         /\ calls[i].fn = "improve_message_direct"
         /\ calls[i].improver = active_improver[inbound.bridge]
         /\ calls[i].message = Split1(inbound.msg.text, SP)[2]
         /\ calls[j].fn = "log_message"
         /\ calls[j].message = ImproverOutput
         /\ calls[k].fn = "lookup_agent"
         /\ calls[k].agent_id = Tail(Split1(inbound.msg.text, SP)[1])
    /\ \A s \in CallsTo("send_message") :
         calls[s].text = FormatEnvelope(AGENT_ID, Tail(Split1(inbound.msg.text, SP)[1]),
                                        ImproverOutput)
    /\ reply.kind = "text"
    /\ reply.text = <<"[AGENT ">> \o AGENT_ID \o <<"]: ">> \o ImproverOutput

\* kinds 1 and 2 of the classification: an envelope (first line the start
\* marker, FROM and TO fields found) or a message marked is_from_peer
IsEnvelopeOrPeer ==
  \/ /\ Split(inbound.msg.text, NL)[1] = <<EXT>>
     /\ ParseExternal(inbound.msg.text).from_agent # PyNone
     /\ ParseExternal(inbound.msg.text).to_agent # PyNone
  \/ MetaGet(inbound.msg.metadata, "is_from_peer", FALSE)

\* the log entry for the inbound text, tagged with the extended path
InboundEntry ==
  [path |-> CurrentPath(MetaGet(inbound.msg.metadata, "path", <<>>), AGENT_ID),
   source |-> <<"Local user to Agent ">> \o AGENT_ID,
   message |-> inbound.msg.text]

\* C25: for every message of kinds 3-6 (directed send, tool query, slash
\* command, plain text) the first side effect of handle_message is one log
\* entry holding the inbound text and the extended path, appended before any
\* improver, lookup, generation or tool call; for envelope and
\* peer-acknowledgment messages no log entry is appended (stated for runs in
\* which the append of the inbound text succeeds).
C25_LogBeforeDispatch ==
  (Handled /\ inbound.msg.content_kind = "text" /\ collab.log_fail # 1) =>
    IF IsEnvelopeOrPeer
      THEN /\ CallsTo("log_message") = {}
           /\ conversation_logs = [c \in {} |-> <<>>]
    ELSE /\ calls # <<>>
         /\ calls[1].fn = "log_message"
         /\ calls[1].conversation_id = ConversationIdOf(inbound.msg)
         /\ ConversationIdOf(inbound.msg) \in DOMAIN conversation_logs
         /\ conversation_logs[ConversationIdOf(inbound.msg)][1] = InboundEntry
         /\ Cardinality({i \in CallsTo("log_message") :
                           calls[i].source = InboundEntry.source}) = 1

\* the inbound message is an envelope and the bridge is in local-terminal mode
IsTerminalEnvelope ==
  /\ Handled
  /\ ~UI_MODE
  /\ inbound.msg.content_kind = "text"
  /\ Split(inbound.msg.text, NL)[1] = <<EXT>>
  /\ ParseExternal(inbound.msg.text).from_agent # PyNone
  /\ ParseExternal(inbound.msg.text).to_agent # PyNone

\* C26: in local-terminal mode, handling a peer-forwarded envelope always
\* returns the acknowledgment "Message received by Agent <id>" to the peer,
\* whether the forward to the local terminal succeeds or fails: a forwarding
\* failure is never surfaced to the peer as an error reply.
C26_TerminalAlwaysAcks ==
  IsTerminalEnvelope =>
    /\ reply.kind = "text"
    /\ reply.text = ReceivedBy(AGENT_ID)
    /\ reply.parent_message_id = inbound.msg.message_id

\* the inbound message reaches call_claude: a plain text, or "/query <text>"
ReachesGeneration ==
  /\ IsLocal
  /\ collab.log_fail # 1
  /\ \/ IsPlainText
     \/ /\ StartsWith(inbound.msg.text, <<"/">>)
        /\ CommandOf(inbound.msg.text) = <<"query">>
        /\ Len(Split1(inbound.msg.text, SP)) > 1

\* the call of call_claude that the handling of the inbound message makes
GenerationCall ==
  call_claude(IF IsPlainText THEN inbound.msg.text
              ELSE Split1(inbound.msg.text, SP)[2],
              MetaGet(inbound.msg.metadata, "additional_context", <<>>),
              ConversationIdOf(inbound.msg),
              CurrentPath(MetaGet(inbound.msg.metadata, "path", <<>>), AGENT_ID),
              IF IsPlainText THEN DefaultSystemPrompt ELSE QuerySystemPrompt,
              collab, 2)

\* C27: the generation wrappers never raise: for every prompt, every
\* additional-context value taken from message metadata and every failure of
\* the generation service, call_claude returns a text or None, and so the
\* handling of a message that reaches it does not end in its exception.
C27_WrappersNeverRaise ==
  ReachesGeneration =>
    /\ ~GenerationCall.raised
    /\ reply.kind = "raised" => reply.exc # "UnboundLocalError"

\* lines[i..j] joined by newlines
RECURSIVE JoinLines(_, _, _)
JoinLines(lines, i, j) ==
  IF i > j THEN <<>>
  ELSE IF i = j THEN lines[i]
  ELSE lines[i] \o <<NL>> \o JoinLines(lines, i + 1, j)

\* the first index in from..Len(lines) whose line equals marker, Len(lines) + 1
\* when there is none
RECURSIVE FirstLine(_, _, _)
FirstLine(lines, marker, from) ==
  IF from > Len(lines) THEN Len(lines) + 1
  ELSE IF lines[from] = <<marker>> THEN from
  ELSE FirstLine(lines, marker, from + 1)

\* the body of an envelope text: the lines strictly between the start-of-body
\* marker and the first end-of-body marker after it (or the end of the text),
\* taken literally and joined by newlines
LiteralBody(text) ==
  LET lines == Split(text, NL)
      start == FirstLine(lines, MESSAGE_START, 2)
      end == FirstLine(lines, MESSAGE_END, start + 1)
  IN JoinLines(lines, start + 1, end - 1)

\* C28: for a text whose first line is the start marker, the decoded body is
\* exactly the lines strictly between the start-of-body marker and the first
\* end-of-body marker after it, taken literally and joined by newlines (one
\* trailing newline trimmed): lines after the end marker never add to the
\* body, body lines that begin with the FROM or TO header marker stay in the
\* body and do not change from/to, and trailing whitespace of the body is kept.
C28_LiteralBody ==
  (codec_in.op = "roundtrip" /\ codec_out.done) =>
    /\ codec_out.parsed.ok
    /\ codec_out.parsed.message_content
         = LiteralBody(FormatEnvelope(codec_in.f, codec_in.t, codec_in.b))
    /\ codec_out.parsed.from_agent = codec_in.f
    /\ codec_out.parsed.to_agent = codec_in.t

\* the text a directed send hands to send_to_agent
OutgoingText ==
  IF IMPROVE_MESSAGES THEN ImproverOutput ELSE Split1(inbound.msg.text, SP)[2]

\* the message the peer's transport receives for delivery s
DeliveredMessage(s) ==
  [content_kind |-> "text", text |-> calls[s].text,
   conversation_id |-> calls[s].conversation_id, message_id |-> "m2",
   metadata |-> calls[s].metadata]

\* C29: when bridge A handles "@B <text>" and the directory resolves B,
\* exactly one envelope is delivered, to B's registered URL in normalized
\* form, with from = A's id, to = B, body = the outgoing text, the inbound
\* conversation id, and metadata holding A's extended path and A's id as
\* source_agent; B's bridge in UI-relay mode then publishes
\* "FROM <A>: <text>" to its UI exactly once (stated for runs in which the log
\* appends and the delivery succeed).
C29_EndToEndDelivery ==
  (/\ IsDirectedSend
   /\ UI_MODE
   /\ collab.log_fail = 0
   /\ Truthy(collab.lookup)
   /\ collab.deliver = "ok") =>
     /\ Cardinality(CallsTo("send_message")) = 1
     /\ \A s \in CallsTo("send_message") :
          /\ calls[s].url = TargetBridgeUrl(collab.lookup.text)
          /\ EndsWith(calls[s].url, <<"/a2a">>)
          /\ calls[s].text = FormatEnvelope(AGENT_ID,
                                            Tail(Split1(inbound.msg.text, SP)[1]),
                                            OutgoingText)
          /\ calls[s].conversation_id = ConversationIdOf(inbound.msg)
          /\ calls[s].metadata.path
               = CurrentPath(MetaGet(inbound.msg.metadata, "path", <<>>), AGENT_ID)
          /\ calls[s].metadata.source_agent = AGENT_ID
          /\ LET peer == handle_message(inbound.bridge, DeliveredMessage(s),
                                        [QuietCollab EXCEPT !.ui = "200"])
             IN /\ Len(peer.calls) = 1
                /\ peer.calls[1].fn = "send_to_ui_client"
                /\ peer.calls[1].message
                     = <<"FROM ">> \o AGENT_ID \o <<": ">> \o OutgoingText

\* stream_messages has been called for client c
Subscribed(c) == stream[c] # "none"

\* C30: a UI subscriber is created on first subscription: after the first
\* stream_messages call for a client id that client has a queue and signal,
\* later publish calls for it are accepted for enqueueing, and the entry is
\* never removed afterwards; before that, a publish for the unknown client is a
\* no-op that creates no queue.
C30_CreatedOnFirstSubscription ==
  [][/\ \A c \in Clients : Subscribed(c)' => c \in DOMAIN client_queues'
     /\ DOMAIN client_queues \subseteq DOMAIN client_queues'
     /\ \A k \in PubCalls :
          (pub[k].pc = "idle" /\ pub'[k].pc # "idle") =>
            /\ pub'[k].accepted <=> Subscribed(pub'[k].client)
            /\ ~Subscribed(pub'[k].client) => client_queues' = client_queues]_vars

\* the inbound text is a slash command of a local user
IsSlashCommand == IsLocal /\ StartsWith(inbound.msg.text, <<"/">>)

\* the fixed reply of "/quit", "/help" and the unknown commands
FixedCommandReply(command) ==
  IF command = <<"quit">> THEN Tag(AGENT_ID) \o <<"Exiting session...">>
  ELSE IF command = <<"help">> THEN Tag(AGENT_ID) \o HelpLines
  ELSE Tag(AGENT_ID) \o <<"Unknown command. ">> \o HelpLines

\* C31: "/quit", "/help" and unknown slash commands are fixed, pure replies
\* (no collaborator call and no state change beyond the inbound log entry);
\* "/query <text>" calls the generation service exactly once with the
\* private-assistant system role and replies with its text, or with the fixed
\* apology whenever generation fails or returns empty.
C31_SlashCommands ==
  IsSlashCommand =>
    LET command == CommandOf(inbound.msg.text)
        parts == Split1(inbound.msg.text, SP)
    IN /\ reply.kind = "text"
       /\ command # <<"query">> =>
            /\ reply.text = FixedCommandReply(command)
            /\ Len(calls) = 1
            /\ calls[1].fn = "log_message"
            /\ calls[1].message = inbound.msg.text
       /\ (command = <<"query">> /\ Len(parts) > 1) =>
            /\ Cardinality(CallsTo("messages.create")) = 1
            /\ \A i \in CallsTo("messages.create") :
                 /\ calls[i].system = QuerySystemPrompt
                 /\ parts[2] # <<>> => EndsWith(calls[i].prompt, parts[2])
            /\ reply.text = Tag(AGENT_ID) \o
                 (IF collab.gen.kind = "text" /\ collab.gen.text # <<>>
                    THEN collab.gen.text
                  ELSE IF collab.gen.kind = "credit"
                    THEN <<"Agent ">> \o AGENT_ID
                           \o <<" processed (API credit limit reached): ">>
                           \o parts[2]
                  ELSE <<"Sorry, I couldn't process your query. Please try again.">>)

\* the conversation id of the exchange: the inbound message's id when it has
\* one, a freshly generated id otherwise
ExchangeId ==
  IF inbound.msg.conversation_id # <<>> THEN inbound.msg.conversation_id
  ELSE <<"uuid4">>

\* C32: every reply handle_message returns, in every branch, carries the
\* inbound message's conversation id when it has one (a freshly generated id
\* otherwise) and the inbound message's id as parent message id; the envelope
\* sent to a peer, the message handed to the UI or terminal, and every log
\* entry written during the call use that same conversation id.
C32_ConversationIdKept ==
  Handled =>
    /\ reply.kind \in {"text", "error"} =>
         /\ reply.conversation_id = ExchangeId
         /\ reply.parent_message_id = inbound.msg.message_id
    /\ \A i \in CallsTo("send_message") \cup CallsTo("log_message")
            \cup CallsTo("send_to_ui_client")
            \cup CallsTo("terminal.send_message_threaded") :
         calls[i].conversation_id = ExchangeId
    /\ DOMAIN conversation_logs \subseteq {ExchangeId}

\* a directed send with conversation id c1 was logged, delivered and answered
\* under c1
C32_Witness ==
  /\ IsDirectedSend
  /\ inbound.msg.conversation_id = <<"c1">>
  /\ IMPROVE_MESSAGES
  /\ reply.kind = "text"
  /\ reply.conversation_id = <<"c1">>
  /\ \E s \in CallsTo("send_message") : calls[s].ok /\ calls[s].conversation_id = <<"c1">>
  /\ DOMAIN conversation_logs = {<<"c1">>}
  /\ Len(conversation_logs[<<"c1">>]) = 2

\* the record a log_message call writes
RecordOf(call) ==
  [path |-> call.path, source |-> call.source, message |-> call.message]

\* C33: the conversation log is append-only and keyed by conversation id: each
\* log_message call (whose write succeeds) adds exactly one record at the end
\* of the log of its conversation id, leaves every earlier record of that log
\* and every other conversation's log unchanged, and no operation of the
\* bridge edits or deletes a record.
C33_AppendOnly ==
  [][\A cid \in SessionIds :
       LET old == RecordsOf(conversation_logs, cid)
           new == RecordsOf(conversation_logs', cid)
           Wrote(call) == /\ call.fn = "log_message"
                          /\ call.ok
                          /\ call.conversation_id = cid
           written == SelectSeq(calls', Wrote)
       IN /\ Len(new) = Len(old) + Len(written)
          /\ SubSeq(new, 1, Len(old)) = old
          /\ \A k \in 1..Len(written) : new[Len(old) + k] = RecordOf(written[k])
          /\ cid # inbound'.msg.conversation_id => new = old]_vars

\* the log of c1 holds two records and a later call has appended to the log
\* of c2
C33_Witness ==
  /\ Handled
  /\ inbound.msg.conversation_id = <<"c2">>
  /\ Len(RecordsOf(conversation_logs, <<"c1">>)) = 2
  /\ Len(RecordsOf(conversation_logs, <<"c2">>)) = 2
  /\ CallsTo("log_message") # {}

C35_NoLostMessage ==
  [][(/\ latest_message.exists
      /\ ~latest_message'.exists
      /\ latest_message.content # 0) =>
        delivered'[latest_message.content] >= 1]_vars

\* C36: handling a peer-forwarded envelope never delivers an envelope to
\* another peer (no lookup and no delivery on that path): in a network of
\* bridges, also when agents send to one another in a cycle or to themselves,
\* each user-issued directed send causes at most one envelope delivery, a
\* bridge that handles an envelope only takes it out of flight, and so after
\* finitely many user inputs no bridge has work left.
C36_NoForwarding ==
  /\ []((Handled /\ Split(inbound.msg.text, NL)[1] = <<EXT>>) =>
          /\ CallsTo("lookup_agent") = {}
          /\ CallsTo("send_message") = {})
  /\ [][/\ Len(in_flight') <= Len(in_flight) + (inputs' - inputs)
        /\ (inputs' = inputs /\ inbound' # inbound) =>
             Len(in_flight') = Len(in_flight) - 1]_vars
  /\ <>[](in_flight = <<>>)

\* bridge b has handled the envelope that a user's directed send at bridge a
\* put in flight, and nothing is in flight any more
C36_Witness ==
  /\ Handled
  /\ inbound.msg.message_id = "m2"
  /\ ParseExternal(inbound.msg.text).from_agent = <<"a">>
  /\ AGENT_ID = <<"b">>
  /\ inputs = 1
  /\ in_flight = <<>>
  /\ reply.kind = "text"
  /\ reply.text = ReceivedBy(<<"b">>)

\* C37: after any sequence of register_message_improver, message_improver,
\* set_message_improver and set_custom_improver calls every bridge's active
\* improver name is a key of the improver registry, and a call of
\* improve_message_direct finds an improver under it (it never takes its
\* "no improver found" branch).
C37_ActiveImproverFound ==
  /\ \A b \in DOMAIN active_improver :
       active_improver[b] \in DOMAIN message_improvement_decorators
  /\ imp_ret.op = "improve_message_direct" =>
       get_message_improver(active_improver[imp_ret.bridge]) # FN_NONE

\* the envelope text with every TO line rewritten to name agent `to`
Readdressed(msg_text, to) ==
  LET lines == Split(msg_text, NL)
      renamed == [i \in 1..Len(lines) |->
                    IF StartsWith(lines[i], <<TO_AGENT>>)
                      THEN <<TO_AGENT>> \o to ELSE lines[i]]
  IN JoinLines(renamed, 1, Len(renamed))

\* C38: the envelope's TO field is never compared with the receiving bridge's
\* own id: an envelope addressed to any agent id is published to the local UI
\* (or forwarded to the local terminal) and answered exactly as the same
\* envelope addressed to this bridge is.
C38_ToNeverCompared ==
  (/\ Handled
   /\ inbound.msg.content_kind = "text"
   /\ ParseExternal(inbound.msg.text).ok
   /\ ParseExternal(inbound.msg.text).to_agent # PyNone) =>
    /\ \A to \in AgentIds :
         LET same == handle_message(inbound.bridge,
                                    [inbound.msg EXCEPT
                                       !.text = Readdressed(inbound.msg.text, to)],
                                    collab)
         IN /\ reply = same.reply
            /\ calls = same.calls
    /\ UI_MODE =>
         /\ Cardinality(CallsTo("send_to_ui_client")) = 1
         /\ reply.kind = "text"
         /\ reply.text = ReceivedBy(AGENT_ID)
    /\ ~UI_MODE => Cardinality(CallsTo("terminal.send_message_threaded")) = 1

\* bridge a has published and acknowledged an envelope addressed to agent b
C38_Witness ==
  /\ Handled
  /\ inbound.msg.content_kind = "text"
  /\ ParseExternal(inbound.msg.text).ok
  /\ ParseExternal(inbound.msg.text).to_agent = <<"b">>
  /\ AGENT_ID = <<"a">>
  /\ UI_MODE
  /\ \E i \in CallsTo("send_to_ui_client") : calls[i].posted
  /\ reply.text = ReceivedBy(<<"a">>)

\* C39: in UI-relay mode the peer gets the acknowledgment "Message received
\* by Agent <id>" whether or not the message reached the mailbox: when the UI
\* endpoint is not configured, the delivery to the UI fails, or
\* receive_message fails on its sender-name lookup, the mailbox does not take
\* the message and the acknowledgment is returned all the same.
C39_AckWithoutDelivery ==
  (/\ Handled
   /\ UI_MODE
   /\ ParseExternal(inbound.msg.text).ok) =>
    /\ reply.kind = "text"
    /\ reply.text = ReceivedBy(AGENT_ID)
    /\ collab.ui # "200" =>
         /\ latest_message.content # inputs
         /\ slot # inputs

\* the metadata fields that say where a message came from
OriginFields == {"is_external", "from_agent_id", "source_agent"}

\* the metadata with the origin fields taken out
WithoutOrigin(metadata) == [k \in DOMAIN metadata \ OriginFields |-> metadata[k]]

\* the metadata with the origin fields set as send_to_agent sets them for a
\* message of agent `sender`
WithOrigin(metadata, sender) ==
  [k \in DOMAIN metadata \cup OriginFields |->
     IF k = "is_external" THEN TRUE
     ELSE IF k \in OriginFields THEN sender
     ELSE metadata[k]]

\* C40: the router's classification, reply and side effects do not depend on
\* the is_external, from_agent_id or source_agent metadata of the inbound
\* message: two messages that differ only in those fields are handled
\* identically, so an envelope text without peer metadata is delivered and
\* acknowledged as a peer message from the sender its FROM line names.
C40_OriginIgnored ==
  (Handled /\ inbound.msg.content_kind = "text") =>
    /\ LET bare == handle_message(inbound.bridge,
                                  [inbound.msg EXCEPT
                                     !.metadata = WithoutOrigin(@)],
                                  collab)
       IN reply = bare.reply /\ calls = bare.calls
    /\ \A sender \in AgentIds :
         LET marked == handle_message(inbound.bridge,
                                      [inbound.msg EXCEPT
                                         !.metadata = WithOrigin(@, sender)],
                                      collab)
         IN reply = marked.reply /\ calls = marked.calls
    /\ (/\ ParseExternal(inbound.msg.text).ok
        /\ DOMAIN inbound.msg.metadata \cap OriginFields = {}
        /\ UI_MODE) =>
         /\ reply.kind = "text"
         /\ reply.text = ReceivedBy(AGENT_ID)
         /\ \A i \in 1..Len(calls) :
              /\ calls[i].fn = "send_to_ui_client"
              /\ calls[i].from_agent = ParseExternal(inbound.msg.text).from_agent

\* a plain text marked as external and as sent by agent b has been handled as
\* a local user's message: it was logged as such and answered by the model
C40_Witness ==
  /\ Handled
  /\ inbound.msg.content_kind = "text"
  /\ inbound.msg.text = <<"x">>
  /\ inbound.msg.metadata = PeerMetadata
  /\ CallsTo("log_message") # {}
  /\ CallsTo("messages.create") # {}
  /\ reply.kind = "text"
====
